---- MODULE Spec2Model ----
(***************************************************************************)
(* TaskMaster backend (Express + Mongoose + JWT): the credential store,    *)
(* the token issuer/verifier, the request authorizer and the task          *)
(* ownership store, as state machines over the two collections.            *)
(*                                                                         *)
(* The repository holds two servers over the same schemas: the modular     *)
(* one (app.js -> routes/ -> controllers/) and the monolith index.js.      *)
(* `entry` says which of the two the process runs.                         *)
(***************************************************************************)
EXTENDS Integers, Sequences, FiniteSets, TLC

VARIABLES
    entry,      \* "app" (app.js + routes + controllers) or "index" (index.js)
    users,      \* the users collection: a sequence, the index is the _id
    tasks,      \* the tasks collection: a set of documents
    creator,    \* history: for every task _id handed out, the caller that created it
    issued,     \* every token login has handed out (tokens live client-side)
    discarded,  \* the tokens a browser has dropped by logout
    clock,      \* Date.now(), in hours
    procs,      \* the requests in flight that are suspended at an await
    last,       \* the most recent request and its response
    allTasks    \* the Tasks page: the tasks it shows (useState in Tasks.tsx)

vars == <<entry, users, tasks, creator, issued, discarded, clock, procs, last, allTasks>>

-----------------------------------------------------------------------------
(* Bounds of the model.                                                    *)

MaxUsers == 2
MaxTasks == 2
MaxTokens == 2
MaxTaskClock == 1
MaxAuthClock == 36
MaxProcs == 2

-----------------------------------------------------------------------------
(* Strings. A string the schema normalises is modelled by the text itself, *)
(* and the normalisations by what they do to the texts of the model.       *)

\* String.prototype.trim
Trim(s) ==
    CASE s = " ann " -> "ann"
      [] s = " a@x.io " -> "a@x.io"
      [] s = "   " -> ""
      [] OTHER -> s

\* String.prototype.toLowerCase
ToLowerCase(s) ==
    CASE s = "A@X.io" -> "a@x.io"
      [] s = "Ann" -> "ann"
      [] OTHER -> s

\* userSchema.username: trim
UsernameSetter(s) == Trim(s)

\* userSchema.email: trim, lowercase
EmailSetter(s) == ToLowerCase(Trim(s))

\* userSchema.email: match /^\S+@\S+\.\S+$/
EmailMatch(s) == s \notin {"", "   ", "b@x", " a@x.io "}

\* !value for a string field of a JSON body ("" and a missing field are falsy)
Missing(body, f) == f \notin DOMAIN body \/ body[f] = ""

-----------------------------------------------------------------------------
(* Passwords: bcrypt.hash with a generated salt, and bcrypt.compare.       *)

bcryptHash(plain) == [alg |-> "bcrypt", cost |-> 10, of |-> plain]

comparePassword(candidate, stored) == stored = bcryptHash(candidate)

-----------------------------------------------------------------------------
(* Tokens: jwt.sign(payload, JWT_SECRET, {expiresIn: "24h"}) and           *)
(* jwt.verify(token, JWT_SECRET). The signature is a MAC of the claims     *)
(* under a key, so it is modelled as the pair of the key and the claims it *)
(* was computed over.                                                      *)

JWT_SECRET == "JWT_SECRET"
OtherSecret == "other secret"

ExpiresInHours == 24

Claims(t) == <<t.userId, t.username, t.role, t.iat, t.exp>>

Sign(payload, key, now) ==
    LET t == [userId |-> payload.userId, username |-> payload.username,
              role |-> payload.role, iat |-> now, exp |-> now + ExpiresInHours]
    IN  [userId |-> t.userId, username |-> t.username, role |-> t.role,
         iat |-> t.iat, exp |-> t.exp,
         sig |-> [key |-> key, over |-> Claims(t)]]

\* jwt.verify: the signature first, then the expiry (now >= exp is expired)
JwtVerify(t, key, now) ==
    IF ~(t.sig.key = key /\ t.sig.over = Claims(t)) THEN "JsonWebTokenError"
    ELSE IF now >= t.exp THEN "TokenExpiredError"
    ELSE "ok"

\* The Authorization headers a request may carry: none, "Bearer <token>",
\* or the bare token with no scheme in front of it.
NoHeader == [scheme |-> "none"]
Bearer(t) == [scheme |-> "Bearer", token |-> t]
Bare(t) == [scheme |-> "", token |-> t]

\* authHeader && authHeader.split(" ")[1]
HeaderToken(h) == IF h.scheme = "Bearer" THEN <<h.token>> ELSE <<>>

authenticateToken_NoExpiry(h, now) ==
    LET tok == HeaderToken(h) IN
    IF tok = <<>> THEN
        [next |-> FALSE, status |-> 401, message |-> "Authentication token required"]
    ELSE IF JwtVerify(tok[1], JWT_SECRET, 0) # "ok" THEN
        [next |-> FALSE, status |-> 403, message |-> "Invalid token"]
    ELSE [next |-> TRUE, status |-> 0, message |-> "", user |-> tok[1]]

authenticateToken_Revocable(h, now) ==
    LET tok == HeaderToken(h) IN
    IF tok = <<>> THEN
        [next |-> FALSE, status |-> 401, message |-> "Authentication token required"]
    ELSE
        LET v == JwtVerify(tok[1], JWT_SECRET, now) IN
        IF v = "TokenExpiredError" THEN
            [next |-> FALSE, status |-> 401, message |-> "Token expired"]
        ELSE IF v # "ok" THEN
            [next |-> FALSE, status |-> 403, message |-> "Invalid token"]
        ELSE IF tok[1].userId = 0 THEN
            [next |-> FALSE, status |-> 403, message |-> "Invalid token payload"]
        ELSE IF tok[1] \in discarded THEN
            [next |-> FALSE, status |-> 401, message |-> "Token revoked"]
        ELSE [next |-> TRUE, status |-> 0, message |-> "", user |-> tok[1]]

\* middleware/authenticateToken.js; the same function in index.js
authenticateToken(h, now) ==
    LET tok == HeaderToken(h) IN
    IF tok = <<>> THEN
        [next |-> FALSE, status |-> 401, message |-> "Authentication token required"]
    ELSE
        LET v == JwtVerify(tok[1], JWT_SECRET, now) IN
        IF v = "TokenExpiredError" THEN
            [next |-> FALSE, status |-> 401, message |-> "Token expired"]
        ELSE IF v # "ok" THEN
            [next |-> FALSE, status |-> 403, message |-> "Invalid token"]
        ELSE IF tok[1].userId = 0 THEN
            [next |-> FALSE, status |-> 403, message |-> "Invalid token payload"]
        ELSE [next |-> TRUE, status |-> 0, message |-> "", user |-> tok[1]]

-----------------------------------------------------------------------------
(* The users collection (userSchema). A document's _id is its index.       *)

Roles == {"user", "admin"}
DefaultAvatar == "https://avatar.iran.liara.run/public/boy?username=default"

UserIds(us) == 1..Len(us)

\* User.findOne(filter): the first of the documents the filter accepts, 0
\* for null
FindOneUser(us, accepted) ==
    IF accepted = {} THEN 0
    ELSE CHOOSE i \in accepted : \A j \in accepted : i <= j

\* new User({...}): the schema's setters and defaults
NewUser(username, email, password, role) ==
    [username |-> UsernameSetter(username), email |-> EmailSetter(email),
     password |-> password, role |-> role,
     phone |-> "", bio |-> "", avatarUrl |-> DefaultAvatar]

\* The document validation save() runs before its pre("save") hooks
UserValidationErrors(doc) ==
    {f \in {"username"} : Len(doc.username) < 3}
    \cup {f \in {"email"} : ~EmailMatch(doc.email)}
    \cup {f \in {"password"} : Len(doc.password) < 6}
    \cup {f \in {"role"} : doc.role \notin Roles}

\* The unique indexes on username and on email (unique: true)
UniqueIndexHit_NoIndex(us, doc, self) == {}

UniqueIndexHit(us, doc, self) ==
    {f \in {"username", "email"} :
        \E i \in UserIds(us) : i # self /\ us[i][f] = doc[f]}

\* userSchema.pre("save"): hash the password when it was modified
\* the password kept as it came, with no hash derived from it
PreSave_Plain(doc, passwordModified) ==
    [doc EXCEPT !.password = [alg |-> "none", cost |-> 0, of |-> doc.password]]

PreSave(doc, passwordModified) ==
    IF passwordModified THEN [doc EXCEPT !.password = bcryptHash(doc.password)]
    ELSE doc

\* newUser.save(): validate, pre-save hook, insert under the unique indexes
SaveNewUser(us, doc) ==
    IF UserValidationErrors(doc) # {} THEN
        [error |-> "ValidationError", users |-> us, id |-> 0]
    ELSE IF UniqueIndexHit(us, doc, 0) # {} THEN
        [error |-> "E11000", users |-> us, id |-> 0]
    ELSE [error |-> "", users |-> Append(us, PreSave(doc, TRUE)), id |-> Len(us) + 1]

-----------------------------------------------------------------------------
(* POST /api/auth/register                                                 *)

Continue == [status |-> 0, message |-> ""]

\* register up to its first await: the body checks, then
\* User.findOne({ $or: [{ email }, { username }] }) and the answer on a hit
RegisterLookup(e, us, body) ==
    IF Missing(body, "username") \/ Missing(body, "email") \/ Missing(body, "password") THEN
        [status |-> 400, message |-> "Username, email, and password are required."]
    ELSE IF Len(body.password) < 6 THEN
        [status |-> 400, message |-> "Password must be at least 6 characters long."]
    ELSE
        LET Hit(u) == \/ u.email = EmailSetter(body.email)
                      \/ u.username = UsernameSetter(body.username)
            existingUser == FindOneUser(us, {i \in UserIds(us) : Hit(us[i])})
        IN  IF existingUser # 0 THEN
                IF e = "index" THEN
                    [status |-> 400, message |-> "Username or email already exists."]
                ELSE IF us[existingUser].email = body.email THEN
                    [status |-> 400, message |-> "User with this email already exists."]
                ELSE [status |-> 400, message |-> "User with this username already exists."]
            ELSE Continue

\* register from newUser.save() on: the response, and the catch block
RegisterSave(e, us, body) ==
    LET saved == SaveNewUser(us, NewUser(body.username, body.email, body.password, "user"))
    IN  IF saved.error = "ValidationError" THEN
            [status |-> 400, message |-> "Validation Error", cause |-> saved.error,
             users |-> us]
        ELSE IF saved.error # "" THEN
            [status |-> 500, message |-> "Server error during registration.",
             cause |-> saved.error, users |-> us]
        ELSE [status |-> 201, message |-> "User registered successfully!",
              cause |-> "", users |-> saved.users]

-----------------------------------------------------------------------------
(* POST /api/auth/login                                                    *)

login_TellsApart(us, body, now) ==
    IF Missing(body, "email") \/ Missing(body, "password") THEN
        [status |-> 400, message |-> "Email and password are required.", token |-> <<>>,
         cause |-> "body"]
    ELSE
        LET ByEmail(u) == u.email = EmailSetter(body.email)
            user == FindOneUser(us, {i \in UserIds(us) : ByEmail(us[i])})
        IN  IF user = 0 THEN
                [status |-> 404, message |-> "User not found.", token |-> <<>>,
                 cause |-> "email"]
            ELSE IF ~comparePassword(body.password, us[user].password) THEN
                [status |-> 401, message |-> "Invalid credentials.", token |-> <<>>,
                 cause |-> "password"]
            ELSE
                LET payload == [userId |-> user, username |-> us[user].username,
                                role |-> us[user].role]
                IN  [status |-> 200, message |-> "Login successful!",
                     token |-> <<Sign(payload, JWT_SECRET, now)>>, cause |-> ""]

login(us, body, now) ==
    IF Missing(body, "email") \/ Missing(body, "password") THEN
        [status |-> 400, message |-> "Email and password are required.", token |-> <<>>,
         cause |-> "body"]
    ELSE
        LET ByEmail(u) == u.email = EmailSetter(body.email)
            user == FindOneUser(us, {i \in UserIds(us) : ByEmail(us[i])})
        IN  IF user = 0 THEN
                [status |-> 401, message |-> "Invalid credentials.", token |-> <<>>,
                 cause |-> "email"]
            ELSE IF ~comparePassword(body.password, us[user].password) THEN
                [status |-> 401, message |-> "Invalid credentials.", token |-> <<>>,
                 cause |-> "password"]
            ELSE
                LET payload == [userId |-> user, username |-> us[user].username,
                                role |-> us[user].role]
                IN  [status |-> 200, message |-> "Login successful!",
                     token |-> <<Sign(payload, JWT_SECRET, now)>>, cause |-> ""]

-----------------------------------------------------------------------------
(* PATCH /api/user/password and PATCH /api/user/profile                    *)

UpdatePasswordCheck_NoCompare(us, userId, body) ==
    IF Missing(body, "currentPassword") \/ Missing(body, "newPassword") THEN
        [status |-> 400, message |-> "Current password and new password are required."]
    ELSE IF Len(body.newPassword) < 6 THEN
        [status |-> 400, message |-> "New password must be at least 6 characters long."]
    ELSE IF body.currentPassword = body.newPassword THEN
        [status |-> 400,
         message |-> "New password cannot be the same as the current password."]
    ELSE IF userId \notin UserIds(us) THEN
        [status |-> 404, message |-> "User not found."]
    ELSE Continue

\* updatePassword up to its save: the body checks, User.findById, the
\* comparison of the current password
UpdatePasswordCheck(us, userId, body) ==
    IF Missing(body, "currentPassword") \/ Missing(body, "newPassword") THEN
        [status |-> 400, message |-> "Current password and new password are required."]
    ELSE IF Len(body.newPassword) < 6 THEN
        [status |-> 400, message |-> "New password must be at least 6 characters long."]
    ELSE IF body.currentPassword = body.newPassword THEN
        [status |-> 400,
         message |-> "New password cannot be the same as the current password."]
    ELSE IF userId \notin UserIds(us) THEN
        [status |-> 404, message |-> "User not found."]
    ELSE IF ~comparePassword(body.currentPassword, us[userId].password) THEN
        [status |-> 401, message |-> "Incorrect current password."]
    ELSE Continue

\* the assignment with no save behind it
UpdatePasswordSave_NotSaved(us, userId, body) ==
    LET doc == [us[userId] EXCEPT !.password = body.newPassword] IN
    IF UserValidationErrors(doc) # {} THEN
        [status |-> 400, message |-> "Validation Error", users |-> us]
    ELSE [status |-> 200, message |-> "Password updated successfully!", users |-> us]

\* the save that writes the whole document back from its defaults
UpdatePasswordSave_ResetsProfile(us, userId, body) ==
    LET doc == [us[userId] EXCEPT !.password = body.newPassword, !.bio = ""] IN
    IF UserValidationErrors(doc) # {} THEN
        [status |-> 400, message |-> "Validation Error", users |-> us]
    ELSE [status |-> 200, message |-> "Password updated successfully!",
          users |-> [us EXCEPT ![userId] = PreSave(doc, TRUE)]]

\* user.password = newPassword; await user.save()
UpdatePasswordSave(us, userId, body) ==
    LET doc == [us[userId] EXCEPT !.password = body.newPassword] IN
    IF UserValidationErrors(doc) # {} THEN
        [status |-> 400, message |-> "Validation Error", users |-> us]
    ELSE [status |-> 200, message |-> "Password updated successfully!",
          users |-> [us EXCEPT ![userId] = PreSave(doc, TRUE)]]

updatePassword(us, userId, body) ==
    LET c == UpdatePasswordCheck(us, userId, body) IN
    IF c # Continue THEN [status |-> c.status, message |-> c.message, users |-> us]
    ELSE UpdatePasswordSave(us, userId, body)

\* updateData: the allow-listed fields the body supplies, trimmed
ProfileFields == {"username", "phone", "bio", "avatarUrl"}

UpdateData_WithEmailAndRole(body) ==
    [f \in (ProfileFields \cup {"email", "role"}) \cap DOMAIN body |-> Trim(body[f])]

UpdateData(body) == [f \in ProfileFields \cap DOMAIN body |-> Trim(body[f])]

\* updateProfile up to its update: the body checks, then the lookup of
\* another account with the new username (index.js looks the caller up first)
UpdateProfileLookup(e, us, userId, body) ==
    LET updateData == UpdateData(body)
        named == "username" \in DOMAIN updateData /\ updateData.username # ""
        Taken(u) == u.username = updateData.username
        others == {i \in UserIds(us) : i # userId /\ Taken(us[i])}
    IN  IF DOMAIN updateData = {} THEN
            [status |-> 400, message |-> "No fields provided for update."]
        ELSE IF named /\ Len(updateData.username) < 3 THEN
            [status |-> 400, message |-> "Username must be at least 3 characters long."]
        ELSE IF e = "index" /\ userId \notin UserIds(us) THEN
            [status |-> 404, message |-> "User not found."]
        ELSE IF named /\ others # {}
                /\ (e = "index" => updateData.username # us[userId].username) THEN
            [status |-> 400, message |-> "Username already taken."]
        ELSE Continue

\* User.findByIdAndUpdate(userId, { $set: updateData }, { runValidators })
UpdateProfileUpdate(e, us, userId, body) ==
    LET updateData == UpdateData(body) IN
    IF "username" \in DOMAIN updateData /\ Len(updateData.username) < 3 THEN
        [status |-> 400, message |-> "Validation Error", cause |-> "ValidationError",
         users |-> us]
    ELSE IF userId \notin UserIds(us) THEN
        IF e = "index" THEN
            [status |-> 500, message |-> "Failed to update user profile.", cause |-> "",
             users |-> us]
        ELSE [status |-> 404, message |-> "User not found.", cause |-> "", users |-> us]
    ELSE
        LET doc == [f \in DOMAIN us[userId] |->
                        IF f \in DOMAIN updateData THEN updateData[f] ELSE us[userId][f]]
        IN  IF "username" \in UniqueIndexHit(us, doc, userId) THEN
                [status |-> 400,
                 message |-> IF e = "index" THEN "Username or email already exists."
                             ELSE "Username already exists.",
                 cause |-> "E11000", users |-> us]
            ELSE [status |-> 200, message |-> "Profile updated successfully!",
                  cause |-> "", users |-> [us EXCEPT ![userId] = doc]]

-----------------------------------------------------------------------------
(* GET /api/team/members and POST /api/team/members                        *)

\* The order of the usernames of the model
UsernameRank(s) ==
    CASE s = "ann" -> 1
      [] s = "bob" -> 2
      [] s = "cat" -> 3
      [] OTHER -> 4

View_WithPassword(us, i) ==
    [f \in DOMAIN us[i] \cup {"_id"} |-> IF f = "_id" THEN i ELSE us[i][f]]

\* .select("-password")
View(us, i) == [f \in (DOMAIN us[i] \ {"password"}) \cup {"_id"} |->
                   IF f = "_id" THEN i ELSE us[i][f]]

\* userResponse of register: index.js leaves the role out
RegisterView(e, us, i) ==
    [f \in IF e = "index" THEN {"_id", "username", "email"}
           ELSE {"_id", "username", "email", "role"} |->
        IF f = "_id" THEN i ELSE us[i][f]]

\* userResponse of login and of addTeamMember
AccountView(us, i) ==
    [f \in {"_id", "username", "email", "role", "phone", "bio", "avatarUrl"} |->
        IF f = "_id" THEN i ELSE us[i][f]]

\* User.find({}).select("-password").sort({ username: 1 })
getTeamMembers(us) ==
    {q \in [UserIds(us) -> {View(us, i) : i \in UserIds(us)}] :
        /\ \A i, j \in DOMAIN q : i # j => q[i] # q[j]
        /\ \A i, j \in DOMAIN q : i < j =>
              UsernameRank(q[i].username) <= UsernameRank(q[j].username)}

\* addTeamMember up to its first await
AddTeamMemberLookup(e, us, body) ==
    IF Missing(body, "username") \/ Missing(body, "email") \/ Missing(body, "password") THEN
        [status |-> 400, message |-> "Username, email, and password are required."]
    ELSE IF Len(body.password) < 6 THEN
        [status |-> 400, message |-> "Password must be at least 6 characters long."]
    ELSE IF ~Missing(body, "role") /\ body.role \notin Roles THEN
        [status |-> 400, message |-> "Invalid role. Must be one of: user, admin"]
    ELSE
        LET Hit(u) == \/ u.email = EmailSetter(body.email)
                      \/ u.username = UsernameSetter(body.username)
            existingUser == FindOneUser(us, {i \in UserIds(us) : Hit(us[i])})
        IN  IF existingUser # 0 THEN
                IF us[existingUser].email = body.email THEN
                    [status |-> 400, message |-> "Email already exists."]
                ELSE [status |-> 400, message |-> "Username already exists."]
            ELSE Continue

\* addTeamMember from newUser.save() on, with its catch block
AddTeamMemberSave(e, us, body) ==
    LET role == IF Missing(body, "role") THEN "user" ELSE body.role
        saved == SaveNewUser(us, NewUser(body.username, body.email, body.password, role))
    IN  IF saved.error = "ValidationError" THEN
            [status |-> 400, message |-> "Validation Error", cause |-> saved.error,
             users |-> us]
        ELSE IF saved.error = "E11000" THEN
            [status |-> 400,
             message |-> IF e = "index" THEN "Username or email already exists."
                         ELSE IF UniqueIndexHit(us, NewUser(body.username, body.email,
                                                            body.password, role), 0)
                                 = {"username"}
                              THEN "Username already exists." ELSE "Email already exists.",
             cause |-> saved.error, users |-> us]
        ELSE [status |-> 201, message |-> "Team member added successfully!",
              cause |-> "", users |-> saved.users]

-----------------------------------------------------------------------------
(* The tasks collection (taskSchema, timestamps: true). The description    *)
(* and assignee paths carry no constraint and are left out.                *)

Priorities == {"high", "medium", "low"}
Statuses == {"pending", "in-progress", "completed"}

\* new Date(s).getTime(): the day number, or NaN
NaN == -1
ParseDate(s) ==
    CASE s = "2025-01-01" -> 20250101
      [] s = "2025-02-01" -> 20250201
      [] OTHER -> NaN

\* mongoose.Types.ObjectId.isValid: 0 stands for a text that is no ObjectId
ObjectIdIsValid(id) == id # 0

\* The _id the next saved task gets
NextTaskId == Len(creator) + 1

\* the schema with no enum on priority and on status
TaskValidationErrors_NoEnum(d) ==
    {f \in {"title"} \cap DOMAIN d : Len(d.title) < 3}
    \cup {f \in {"dueDate"} \cap DOMAIN d : d.dueDate = NaN}
    \cup {f \in {"createdBy"} \cap DOMAIN d : d.createdBy = 0}

\* The validators of taskSchema on the paths a document or a $set carries
TaskValidationErrors(d) ==
    {f \in {"title"} \cap DOMAIN d : Len(d.title) < 3}
    \cup {f \in {"dueDate"} \cap DOMAIN d : d.dueDate = NaN}
    \cup {f \in {"priority"} \cap DOMAIN d : d.priority \notin Priorities}
    \cup {f \in {"status"} \cap DOMAIN d : d.status \notin Statuses}
    \cup {f \in {"createdBy"} \cap DOMAIN d : d.createdBy = 0}

\* createTask (controllers/task.controller.js), taskRouter.post (index.js)
createTask_OwnerFromBody(e, ts, userId, body, id, now) ==
    LET doc == [_id |-> id, title |-> Trim(body.title), dueDate |-> ParseDate(body.dueDate),
                priority |-> IF Missing(body, "priority") THEN "medium" ELSE body.priority,
                status |-> IF Missing(body, "status") THEN "pending" ELSE body.status,
                createdBy |-> IF "createdBy" \in DOMAIN body THEN body.createdBy ELSE userId,
                createdAt |-> now, updatedAt |-> now]
    IN  IF Missing(body, "title") \/ Missing(body, "dueDate") \/ ParseDate(body.dueDate) = NaN
        THEN [status |-> 400, message |-> "Title and due date are required.", tasks |-> ts]
        ELSE [status |-> 201, message |-> "Task created successfully!",
              tasks |-> ts \cup {doc}]

createTask_StoresUndated(e, ts, userId, body, id, now) ==
    IF Missing(body, "title") \/ Missing(body, "dueDate") THEN
        [status |-> 400,
         message |-> IF e = "index" THEN "Title and a valid due date are required."
                     ELSE "Title and due date are required.",
         tasks |-> ts]
    ELSE
        LET newTask ==
                [_id |-> id, title |-> Trim(body.title), dueDate |-> ParseDate(body.dueDate),
                 priority |-> IF Missing(body, "priority") THEN "medium" ELSE body.priority,
                 status |-> IF Missing(body, "status") THEN "pending" ELSE body.status,
                 createdBy |-> userId, createdAt |-> now, updatedAt |-> now]
        IN  IF TaskValidationErrors(newTask) \ {"dueDate"} # {} THEN
                [status |-> 400, message |-> "Validation Error", tasks |-> ts]
            ELSE [status |-> 201, message |-> "Task created successfully!",
                  tasks |-> ts \cup {newTask}]

createTask(e, ts, userId, body, id, now) ==
    IF Missing(body, "title") \/ Missing(body, "dueDate") THEN
        [status |-> 400,
         message |-> IF e = "index" THEN "Title and a valid due date are required."
                     ELSE "Title and due date are required.",
         tasks |-> ts]
    ELSE IF ParseDate(body.dueDate) = NaN THEN
        [status |-> 400,
         message |-> IF e = "index" THEN "Title and a valid due date are required."
                     ELSE "Invalid due date format provided.",
         tasks |-> ts]
    ELSE
        LET newTask ==
                [_id |-> id, title |-> Trim(body.title), dueDate |-> ParseDate(body.dueDate),
                 priority |-> IF Missing(body, "priority") THEN "medium" ELSE body.priority,
                 status |-> IF Missing(body, "status") THEN "pending" ELSE body.status,
                 createdBy |-> userId, createdAt |-> now, updatedAt |-> now]
        IN  IF TaskValidationErrors(newTask) # {} THEN
                [status |-> 400, message |-> "Validation Error", tasks |-> ts]
            ELSE [status |-> 201, message |-> "Task created successfully!",
                  tasks |-> ts \cup {newTask}]

\* Task.find({ createdBy: userId }).sort({ createdAt: -1 }): every order of
\* the caller's documents that descends in createdAt (ties in any order)
SeqsOf(S) == {q \in [1..Cardinality(S) -> S] : \A i, j \in DOMAIN q : i # j => q[i] # q[j]}

getTasks(ts, userId) ==
    {q \in SeqsOf({t \in ts : t.createdBy = userId}) :
        \A i, j \in DOMAIN q : i < j => q[i].createdAt >= q[j].createdAt}

\* The paths of an update body that reach $set: the whole body in
\* updateTask (strict mode keeps the schema's paths), status alone in index.js
SetOf(e, body) ==
    IF e = "index" THEN [f \in {"status"} \cap DOMAIN body |-> body[f]]
    ELSE [f \in {"title", "dueDate", "priority", "status", "createdBy"} \cap DOMAIN body |->
            IF f = "title" THEN Trim(body[f])
            ELSE IF f = "dueDate" THEN ParseDate(body[f])
            ELSE body[f]]

\* The cast of $set to the schema's types: a createdBy that is no ObjectId
\* and a dueDate that is no date are CastErrors ("" casts to null)
CastError(set, body) ==
    \/ "createdBy" \in DOMAIN set /\ ~ObjectIdIsValid(set.createdBy)
    \/ "dueDate" \in DOMAIN set /\ body.dueDate # "" /\ set.dueDate = NaN

\* Task.findOneAndUpdate({ _id, createdBy }, { $set }, { new, runValidators })
\* and Task.findOneAndDelete({ _id, createdBy }): the document the filter finds
FindOwnedTask_ById(ts, taskId, userId) ==
    {t \in ts : t._id = taskId}

FindOwnedTask(ts, taskId, userId) ==
    {t \in ts : t._id = taskId /\ t.createdBy = userId}

\* a store in which a completed task keeps its status
ApplySet_CompletedIsFinal(t, set, now) ==
    [f \in DOMAIN t |-> IF f \in DOMAIN set /\ ~(f = "status" /\ t.status = "completed")
                        THEN set[f]
                        ELSE IF f = "updatedAt" THEN now ELSE t[f]]

ApplySet_KeepsUpdatedAt(t, set, now) ==
    [f \in DOMAIN t |-> IF f \in DOMAIN set THEN set[f] ELSE t[f]]

\* $set on the document; timestamps: true moves updatedAt to the time of
\* the update
ApplySet(t, set, now) ==
    [f \in DOMAIN t |-> IF f \in DOMAIN set THEN set[f]
                        ELSE IF f = "updatedAt" THEN now ELSE t[f]]

\* updateTask (controllers/task.controller.js), taskRouter.patch (index.js)
updateTask_CheckThenForbid(e, ts, userId, taskId, body, now) ==
    LET set == SetOf(e, body)
        byId == {t \in ts : t._id = taskId}
        found == {t \in byId : t.createdBy = userId}
        early == [status |-> 400, message |-> "Bad request", tasks |-> ts]
    IN  IF ~ObjectIdIsValid(taskId) THEN early
        ELSE IF e = "index" /\ (Missing(body, "status") \/ body.status \notin Statuses) THEN early
        ELSE IF e = "app" /\ ~Missing(body, "status") /\ body.status \notin Statuses THEN early
        ELSE IF CastError(set, body) THEN
            [status |-> 500, message |-> "Server error updating task.", tasks |-> ts]
        ELSE IF TaskValidationErrors(set) # {} THEN early
        ELSE IF byId = {} THEN
            [status |-> 404, message |-> "Task not found.", tasks |-> ts]
        ELSE IF found = {} THEN
            [status |-> 403, message |-> "You do not have permission to update it.",
             tasks |-> ts]
        ELSE [status |-> 200, message |-> "Task updated successfully!",
              tasks |-> (ts \ found) \cup {ApplySet(t, set, now) : t \in found}]

updateTask_ValidatesAfterWrite(e, ts, userId, taskId, body, now) ==
    LET set == SetOf(e, body)
        found == FindOwnedTask(ts, taskId, userId)
        invalidStatus ==
            [status |-> 400,
             message |-> "Invalid status. Must be one of: pending, in-progress, completed",
             tasks |-> ts]
    IN  IF ~ObjectIdIsValid(taskId) THEN
            [status |-> 400, message |-> "Invalid task ID format", tasks |-> ts]
        ELSE IF e = "index" /\ (Missing(body, "status") \/ body.status \notin Statuses) THEN
            invalidStatus
        ELSE IF e = "app" /\ ~Missing(body, "status") /\ body.status \notin Statuses THEN
            invalidStatus
        ELSE IF CastError(set, body) THEN
            \* CastError: not a ValidationError, so the generic branch of the catch
            [status |-> 500,
             message |-> IF e = "index" THEN "Server error updating task status."
                         ELSE "Server error updating task.",
             tasks |-> ts]
        ELSE IF TaskValidationErrors(set) # {} THEN
            [status |-> 400, message |-> "Validation Error",
             tasks |-> (ts \ found) \cup {ApplySet(t, set, now) : t \in found}]
        ELSE IF found = {} THEN
            [status |-> 404,
             message |-> "Task not found or you do not have permission to update it.",
             tasks |-> ts]
        ELSE [status |-> 200,
              message |-> IF e = "index" THEN "Task status updated successfully!"
                          ELSE "Task updated successfully!",
              tasks |-> (ts \ found) \cup {ApplySet(t, set, now) : t \in found}]

updateTask(e, ts, userId, taskId, body, now) ==
    LET set == SetOf(e, body)
        found == FindOwnedTask(ts, taskId, userId)
        invalidStatus ==
            [status |-> 400,
             message |-> "Invalid status. Must be one of: pending, in-progress, completed",
             tasks |-> ts]
    IN  IF ~ObjectIdIsValid(taskId) THEN
            [status |-> 400, message |-> "Invalid task ID format", tasks |-> ts]
        ELSE IF e = "index" /\ (Missing(body, "status") \/ body.status \notin Statuses) THEN
            invalidStatus
        ELSE IF e = "app" /\ ~Missing(body, "status") /\ body.status \notin Statuses THEN
            invalidStatus
        ELSE IF CastError(set, body) THEN
            \* CastError: not a ValidationError, so the generic branch of the catch
            [status |-> 500,
             message |-> IF e = "index" THEN "Server error updating task status."
                         ELSE "Server error updating task.",
             tasks |-> ts]
        ELSE IF TaskValidationErrors(set) # {} THEN
            [status |-> 400, message |-> "Validation Error", tasks |-> ts]
        ELSE IF found = {} THEN
            [status |-> 404,
             message |-> "Task not found or you do not have permission to update it.",
             tasks |-> ts]
        ELSE [status |-> 200,
              message |-> IF e = "index" THEN "Task status updated successfully!"
                          ELSE "Task updated successfully!",
              tasks |-> (ts \ found) \cup {ApplySet(t, set, now) : t \in found}]

\* deleteTask (controllers/task.controller.js)
deleteTask(ts, userId, taskId) ==
    LET result == FindOwnedTask(ts, taskId, userId) IN
    IF ~ObjectIdIsValid(taskId) THEN
        [status |-> 400, message |-> "Invalid task ID format", tasks |-> ts]
    ELSE IF result = {} THEN
        [status |-> 404,
         message |-> "Task not found or you do not have permission to delete it.",
         tasks |-> ts]
    ELSE [status |-> 200, message |-> "Task deleted successfully!", tasks |-> ts \ result]

-----------------------------------------------------------------------------
(* Routing: which routers put authenticateToken in front of their          *)
(* handlers (router.use(authenticateToken) in routes/*.routes.js, the      *)
(* second argument of every route of taskRouter, userRouter and teamRouter *)
(* in index.js), and the route index.js does not have.                     *)

ProtectedRouters == {"tasks", "user", "team"}

UsesAuthenticateToken_TeamOpen(e, router) == router \in {"tasks", "user"}

UsesAuthenticateToken(e, router) == router \in {"tasks", "user", "team"}

RouteExists(e, op) == ~(e = "index" /\ op = "deleteTask")

\* the gate with a role check in front of the team router
Gate_TeamForAdmins(e, router, h, now) ==
    LET g == authenticateToken(h, now) IN
    IF router \notin {"tasks", "user", "team"} THEN
        [next |-> TRUE, status |-> 0, message |-> "", user |-> [userId |-> 0]]
    ELSE IF g.next /\ router = "team" /\ g.user.role # "admin" THEN
        [next |-> FALSE, status |-> 403, message |-> "Forbidden"]
    ELSE g

\* What the router does with a request before the handler: req.user is the
\* decoded token when authenticateToken called next()
Gate(e, router, h, now) ==
    IF UsesAuthenticateToken(e, router) THEN authenticateToken(h, now)
    ELSE [next |-> TRUE, status |-> 0, message |-> "", user |-> [userId |-> 0]]

\* What the token of a request is, whatever the middleware makes of it
TokenKind(h, now) ==
    IF HeaderToken(h) = <<>> THEN "absent"
    ELSE IF HeaderToken(h)[1] \notin issued THEN "forged"
    ELSE IF now >= HeaderToken(h)[1].iat + ExpiresInHours THEN "expired"
    ELSE "genuine"

NoRequest ==
    [op |-> "none", router |-> "", status |-> 0, message |-> "", ran |-> FALSE,
     token |-> "absent", userId |-> 0, taskId |-> 0, cause |-> "", data |-> <<>>]

\* The record of a request the gate turned away
Rejected(op, router, h, g) ==
    [NoRequest EXCEPT !.op = op, !.router = router, !.status = g.status,
                      !.message = g.message, !.token = TokenKind(h, clock)]

\* The record of a request whose handler ran and answered r
Answered(op, router, h, userId, taskId, r, cause, data) ==
    [op |-> op, router |-> router, status |-> r.status, message |-> r.message,
     ran |-> TRUE, token |-> TokenKind(h, clock), userId |-> userId,
     taskId |-> taskId, cause |-> cause, data |-> data]

Idle == [pc |-> "idle"]

-----------------------------------------------------------------------------
(* The state after the process has started on an empty database.           *)

Init ==
    /\ entry \in {"app", "index"}
    /\ users = <<>>
    /\ tasks = {}
    /\ creator = <<>>
    /\ issued = {}
    /\ discarded = {}
    /\ clock = 0
    /\ procs = [p \in 1..MaxProcs |-> Idle]
    /\ last = NoRequest
    /\ allTasks = <<>>

-----------------------------------------------------------------------------
(* Requests that run from arrival to response with no other request in     *)
(* between.                                                                 *)

Register(body) ==
    /\ Len(users) < MaxUsers
    /\ LET r == RegisterLookup(entry, users, body)
           w == RegisterSave(entry, users, body)
       IN  IF r # Continue THEN
               /\ last' = Answered("register", "auth", NoHeader, 0, 0, r, "", <<>>)
               /\ UNCHANGED users
           ELSE
               /\ last' = Answered("register", "auth", NoHeader, 0, 0, w, w.cause,
                                   IF w.status = 201
                                   THEN <<RegisterView(entry, w.users, Len(w.users))>>
                                   ELSE <<>>)
               /\ users' = w.users
    /\ UNCHANGED <<entry, allTasks, tasks, creator, issued, discarded, clock, procs>>

Login(body) ==
    LET r == login(users, body, clock) IN
    /\ Cardinality(issued \cup {r.token[i] : i \in DOMAIN r.token}) <= MaxTokens
    /\ issued' = issued \cup {r.token[i] : i \in DOMAIN r.token}
    /\ last' = Answered("login", "auth", NoHeader, 0, 0, r, r.cause,
                        [i \in DOMAIN r.token |-> AccountView(users, r.token[i].userId)])
    /\ UNCHANGED <<entry, allTasks, users, tasks, creator, discarded, clock, procs>>

Tick(step, max) ==
    /\ clock + step <= max
    /\ clock' = clock + step
    /\ UNCHANGED <<entry, allTasks, users, tasks, creator, issued, discarded, procs, last>>

CreateTask(h, body) ==
    /\ Len(creator) < MaxTasks
    /\ LET g == Gate(entry, "tasks", h, clock) IN
       IF ~g.next THEN
           /\ last' = Rejected("createTask", "tasks", h, g)
           /\ UNCHANGED <<tasks, creator>>
       ELSE
           LET r == createTask(entry, tasks, g.user.userId, body, NextTaskId, clock) IN
           /\ tasks' = r.tasks
           /\ creator' = IF r.status = 201 THEN Append(creator, g.user.userId) ELSE creator
           /\ last' = Answered("createTask", "tasks", h, g.user.userId,
                               IF r.status = 201 THEN NextTaskId ELSE 0, r, "",
                               IF "createdBy" \in DOMAIN body THEN <<body.createdBy>>
                               ELSE <<>>)
    /\ UNCHANGED <<entry, allTasks, users, issued, discarded, clock, procs>>

GetTasks(h) ==
    /\ LET g == Gate(entry, "tasks", h, clock) IN
       IF ~g.next THEN last' = Rejected("getTasks", "tasks", h, g)
       ELSE \E q \in getTasks(tasks, g.user.userId) :
               last' = Answered("getTasks", "tasks", h, g.user.userId, 0,
                                [status |-> 200, message |-> ""], "",
                                [i \in DOMAIN q |-> q[i]._id])
    /\ UNCHANGED <<entry, allTasks, users, tasks, creator, issued, discarded, clock, procs>>

UpdateTask(h, taskId, body) ==
    /\ LET g == Gate(entry, "tasks", h, clock) IN
       IF ~g.next THEN
           /\ last' = Rejected("updateTask", "tasks", h, g)
           /\ UNCHANGED tasks
       ELSE
           LET r == updateTask(entry, tasks, g.user.userId, taskId, body, clock) IN
           /\ tasks' = r.tasks
           /\ last' = Answered("updateTask", "tasks", h, g.user.userId, taskId, r, "",
                               <<>>)
    /\ UNCHANGED <<entry, allTasks, users, creator, issued, discarded, clock, procs>>

\* DELETE /api/tasks/:taskId; index.js has no such route, and Express
\* answers 404 itself, with no middleware and no handler run
DeleteTask(h, taskId) ==
    /\ IF ~RouteExists(entry, "deleteTask") THEN
           /\ last' = [NoRequest EXCEPT !.op = "deleteTask", !.status = 404,
                                        !.message = "Cannot DELETE",
                                        !.token = TokenKind(h, clock)]
           /\ UNCHANGED tasks
       ELSE
           LET g == Gate(entry, "tasks", h, clock) IN
           IF ~g.next THEN
               /\ last' = Rejected("deleteTask", "tasks", h, g)
               /\ UNCHANGED tasks
           ELSE
               LET r == deleteTask(tasks, g.user.userId, taskId) IN
               /\ tasks' = r.tasks
               /\ last' = Answered("deleteTask", "tasks", h, g.user.userId, taskId, r, "",
                                   <<>>)
    /\ UNCHANGED <<entry, allTasks, users, creator, issued, discarded, clock, procs>>

UpdatePassword(h, body) ==
    /\ LET g == Gate(entry, "user", h, clock) IN
       IF ~g.next THEN
           /\ last' = Rejected("updatePassword", "user", h, g)
           /\ UNCHANGED users
       ELSE
           LET r == updatePassword(users, g.user.userId, body) IN
           /\ users' = r.users
           /\ last' = Answered("updatePassword", "user", h, g.user.userId, 0, r, "", <<>>)
    /\ UNCHANGED <<entry, allTasks, tasks, creator, issued, discarded, clock, procs>>

UpdateProfile(h, body) ==
    /\ LET g == Gate(entry, "user", h, clock) IN
       IF ~g.next THEN
           /\ last' = Rejected("updateProfile", "user", h, g)
           /\ UNCHANGED users
       ELSE
           LET c == UpdateProfileLookup(entry, users, g.user.userId, body)
               r == UpdateProfileUpdate(entry, users, g.user.userId, body)
           IN  IF c # Continue THEN
                   /\ last' = Answered("updateProfile", "user", h, g.user.userId, 0, c,
                                       "", <<>>)
                   /\ UNCHANGED users
               ELSE
                   /\ users' = r.users
                   /\ last' = Answered("updateProfile", "user", h, g.user.userId, 0, r,
                                       r.cause,
                                       IF r.status = 200
                                       THEN <<View(r.users, g.user.userId)>> ELSE <<>>)
    /\ UNCHANGED <<entry, allTasks, tasks, creator, issued, discarded, clock, procs>>

GetTeamMembers(h) ==
    /\ LET g == Gate(entry, "team", h, clock) IN
       IF ~g.next THEN last' = Rejected("getTeamMembers", "team", h, g)
       ELSE \E q \in getTeamMembers(users) :
               last' = Answered("getTeamMembers", "team", h, g.user.userId, 0,
                                [status |-> 200, message |-> ""], "", q)
    /\ UNCHANGED <<entry, allTasks, users, tasks, creator, issued, discarded, clock, procs>>

AddTeamMember(h, body) ==
    /\ Len(users) < MaxUsers
    /\ LET g == Gate(entry, "team", h, clock) IN
       IF ~g.next THEN
           /\ last' = Rejected("addTeamMember", "team", h, g)
           /\ UNCHANGED users
       ELSE
           LET c == AddTeamMemberLookup(entry, users, body)
               r == AddTeamMemberSave(entry, users, body)
           IN  IF c # Continue THEN
                   /\ last' = Answered("addTeamMember", "team", h, g.user.userId, 0, c,
                                       "", <<>>)
                   /\ UNCHANGED users
               ELSE
                   /\ users' = r.users
                   /\ last' = Answered("addTeamMember", "team", h, g.user.userId, 0, r,
                                       r.cause,
                                       IF r.status = 201
                                       THEN <<AccountView(r.users, Len(r.users))>>
                                       ELSE <<>>)
    /\ UNCHANGED <<entry, allTasks, tasks, creator, issued, discarded, clock, procs>>

\* logout (UserContext): the browser drops its token; the server is not told
Logout(t) ==
    /\ t \in issued \ discarded
    /\ discarded' = discarded \cup {t}
    /\ UNCHANGED <<entry, allTasks, users, tasks, creator, issued, clock, procs, last>>

-----------------------------------------------------------------------------
(* The task store under register, login, create, list, update and delete.  *)

Ann == [username |-> "ann", email |-> "a@x.io", password |-> "secret1"]
Bob == [username |-> "bob", email |-> "b@x.io", password |-> "secret2"]

Credentials(b) == [email |-> b.email, password |-> b.password]

BuyMilk == [title |-> "Buy milk", dueDate |-> "2025-01-01"]

TaskIds == 0..MaxTasks

CreateBodies ==
    {BuyMilk, [title |-> "Buy milk"]}
    \cup {[title |-> "Buy milk", dueDate |-> "2025-01-01", createdBy |-> u] : u \in 1..MaxUsers}

UpdateBodies ==
    {[status |-> s] : s \in {"completed", "bogus"}}
    \cup {[createdBy |-> u] : u \in 1..MaxUsers}

IssuedHeaders == {NoHeader} \cup {Bearer(t) : t \in issued}

NextTasks ==
    \/ \E b \in {Ann, Bob} : Register(b)
    \/ \E b \in {Ann, Bob} : Login(Credentials(b))
    \/ Tick(1, MaxTaskClock)
    \/ \E h \in IssuedHeaders, b \in CreateBodies : CreateTask(h, b)
    \/ \E h \in IssuedHeaders : GetTasks(h)
    \/ \E h \in IssuedHeaders, id \in TaskIds, b \in UpdateBodies : UpdateTask(h, id, b)
    \/ \E h \in IssuedHeaders, id \in TaskIds : DeleteTask(h, id)

SpecTasks == Init /\ [][NextTasks]_vars

-----------------------------------------------------------------------------
(* Inputs the properties range over: every caller, every id and a set of   *)
(* bodies wider than the ones the requests above send.                     *)

Merge(a, b) == [f \in DOMAIN a \cup DOMAIN b |-> IF f \in DOMAIN a THEN a[f] ELSE b[f]]

AnyUpdateBody ==
    {Merge(a, b) : a \in {<<>>} \cup {[status |-> v] : v \in {"completed", "bogus", ""}},
                   b \in {<<>>} \cup {[createdBy |-> u] : u \in 0..MaxUsers}}
    \cup {[priority |-> "urgent"], [priority |-> "high"], [title |-> "ab"],
          [title |-> "Buy eggs", status |-> "in-progress"]}

AnyCreateBody ==
    {Merge(a, b) : a \in {BuyMilk, [title |-> "Buy milk"], [dueDate |-> "2025-01-01"],
                          [title |-> "ab", dueDate |-> "2025-01-01"],
                          [title |-> "Buy milk", dueDate |-> "soon"],
                          [title |-> "Buy milk", dueDate |-> "2025-02-01",
                           priority |-> "low", status |-> "completed"]},
                   b \in {<<>>} \cup {[createdBy |-> u] : u \in 0..MaxUsers}}

\* What DELETE /api/tasks/:taskId answers a caller the gate let through
DeleteResponse(e, ts, userId, taskId) ==
    IF RouteExists(e, "deleteTask") THEN deleteTask(ts, userId, taskId)
    ELSE [status |-> 404, message |-> "Cannot DELETE", tasks |-> ts]

\* A body updateTask's checks, the cast and the schema's validators let pass
PassesValidation(e, body) ==
    /\ "status" \in DOMAIN body => body.status \in Statuses
    /\ e = "index" => "status" \in DOMAIN body
    /\ e = "app" /\ "priority" \in DOMAIN body => body.priority \in Priorities
    /\ e = "app" /\ "title" \in DOMAIN body => Len(Trim(body.title)) >= 3
    /\ e = "app" /\ "createdBy" \in DOMAIN body => body.createdBy # 0
    /\ e = "app" /\ "dueDate" \in DOMAIN body => ParseDate(body.dueDate) # NaN

Others(userId) == {t \in tasks : t.createdBy # userId}

NoTaskIds == {id \in 1..MaxTasks : \A t \in tasks : t._id # id}

-----------------------------------------------------------------------------
(* C1. After any sequence of register, login, create, update and delete,   *)
(* the list GET /api/tasks returns to account B is exactly the stored      *)
(* tasks whose owner is B, newest-created first, and no task that another  *)
(* account created is in it.                                               *)
C1_ListIsOwnTasksNewestFirst ==
    \A b \in UserIds(users) : \A q \in getTasks(tasks, b) :
        /\ {q[i] : i \in DOMAIN q} = {t \in tasks : t.createdBy = b}
        /\ \A i, j \in DOMAIN q : i < j => q[i].createdAt >= q[j].createdAt
        /\ \A i \in DOMAIN q : creator[q[i]._id] = b

(* C2. Every stored task's owner (createdBy) is the account whose token    *)
(* created it, whatever bodies were sent to PATCH /api/tasks/:id since.    *)
C2_OwnerFixedAtCreation ==
    \A t \in tasks : t.createdBy = creator[t._id]

C4_ForeignIsIndistinguishableFromMissing ==
    \A b \in UserIds(users) : \A t \in Others(b) : \A id \in NoTaskIds :
        /\ \A body \in AnyUpdateBody :
             LET r == updateTask(entry, tasks, b, t._id, body, clock)
                 n == updateTask(entry, tasks, b, id, body, clock)
             IN  r.status = n.status /\ r.message = n.message
        /\ LET d == DeleteResponse(entry, tasks, b, t._id)
               n == DeleteResponse(entry, tasks, b, id)
           IN  d.status = n.status /\ d.message = n.message

\* A caller was answered 404 for an id that matches no task while the
\* store holds a task of another account
C4_Witness ==
    /\ last.op = "updateTask" /\ last.ran /\ last.status = 404
    /\ last.taskId \in NoTaskIds
    /\ Others(last.userId) # {}

(* C5. create stores a task whose owner is the identity decoded from the   *)
(* caller's token, for every request body, also one that carries its own   *)
(* createdBy.                                                              *)
C5_OwnerIsTokenIdentity ==
    /\ \A t \in issued : \A body \in AnyCreateBody :
         LET g == Gate(entry, "tasks", Bearer(t), clock)
             r == createTask(entry, tasks, g.user.userId, body, NextTaskId, clock)
         IN  g.next => \A d \in r.tasks \ tasks : d.createdBy = t.userId
    /\ last.op = "createTask" /\ last.status = 201 =>
         \E d \in tasks : d._id = last.taskId /\ d.createdBy = last.userId

\* A task was created from a body that named another account as its owner
C5_Witness ==
    /\ last.op = "createTask" /\ last.status = 201
    /\ last.data # <<>> /\ last.data[1] # last.userId
    /\ \E d \in tasks : d._id = last.taskId /\ d.createdBy = last.userId

-----------------------------------------------------------------------------
(* The request authorizer in front of every task, profile and team route.  *)

\* A token re-signed with another secret, and tokens whose payload was
\* altered under the signature they came with
Forged(ts) ==
    {Sign(t, OtherSecret, t.iat) : t \in ts}
    \cup ({[t EXCEPT !.userId = u] : t \in ts, u \in 1..MaxUsers} \ ts)
    \cup {[t EXCEPT !.exp = t.exp + ExpiresInHours] : t \in ts}

AnyHeader ==
    {NoHeader} \cup {Bearer(t) : t \in issued \cup Forged(issued)}
    \cup {Bare(t) : t \in issued}

NewPassword == [currentPassword |-> "secret1", newPassword |-> "secret3"]

NextGate ==
    \/ Register(Ann)
    \/ Login(Credentials(Ann))
    \/ Tick(ExpiresInHours, ExpiresInHours)
    \/ \E h \in AnyHeader : CreateTask(h, BuyMilk)
    \/ \E h \in AnyHeader : GetTasks(h)
    \/ \E h \in AnyHeader : UpdateTask(h, 1, [status |-> "completed"])
    \/ \E h \in AnyHeader : DeleteTask(h, 1)
    \/ \E h \in AnyHeader : UpdatePassword(h, NewPassword)
    \/ \E h \in AnyHeader : UpdateProfile(h, [bio |-> "hi"])
    \/ \E h \in AnyHeader : GetTeamMembers(h)
    \/ \E h \in AnyHeader : AddTeamMember(h, Bob)

SpecGate == Init /\ [][NextGate]_vars

StoreOf == <<users, tasks, creator>>

\* C6: on every task, profile and team route the handler runs only for a
\* request whose token authenticateToken verified, with the decoded token
\* as its identity; a request with no token is answered 401; and a request
\* the gate turns away never reaches its handler and leaves the store as
\* it was.
C6_GateState ==
    /\ \A router \in ProtectedRouters, h \in AnyHeader :
          LET g == Gate(entry, router, h, clock) IN
          /\ g.next => /\ TokenKind(h, clock) = "genuine"
                       /\ g.user = HeaderToken(h)[1]
          /\ TokenKind(h, clock) = "absent" => ~g.next /\ g.status = 401
    /\ last.router \in ProtectedRouters =>
          /\ last.ran => /\ last.token = "genuine"
                         /\ \E t \in issued : t.userId = last.userId
          /\ last.token = "absent" => ~last.ran /\ last.status = 401
          /\ ~last.ran => last.status \in {401, 403}

C6_RejectedStep ==
    (last' # last /\ last'.router \in ProtectedRouters /\ ~last'.ran)
        => UNCHANGED StoreOf

C6_SingleMandatoryGate == [](C6_GateState) /\ [][C6_RejectedStep]_vars

C6_Witness ==
    /\ last.router = "team"
    /\ last.token = "absent"
    /\ last.status = 401
    /\ ~last.ran
    /\ Len(users) > 0
    /\ tasks # {}

-----------------------------------------------------------------------------
(* Token lifetime: login, logout, the passing of time, and changes to the  *)
(* account a token was issued for.                                         *)

Rename == [username |-> "cat"]

NextAuth ==
    \/ Register(Ann)
    \/ Login(Credentials(Ann))
    \/ \E t \in issued : Logout(t)
    \/ Tick(12, MaxAuthClock)
    \/ \E h \in AnyHeader : UpdatePassword(h, NewPassword)
    \/ \E h \in AnyHeader : UpdateProfile(h, Rename)
    \/ \E h \in AnyHeader : GetTasks(h)
    \/ \E h \in AnyHeader : GetTeamMembers(h)

SpecAuth == Init /\ [][NextAuth]_vars

\* C7: a token login issued at T is accepted on every protected route
\* while the clock is before T+24h and from T+24h on is answered 401
\* "Token expired"; a token signed with another secret or whose payload was
\* altered is answered 403 as invalid, never as expired, never accepted.
C7_TokenLifetime ==
    /\ \A t \in issued :
          /\ t.exp = t.iat + ExpiresInHours
          /\ \A router \in ProtectedRouters :
                LET g == Gate(entry, router, Bearer(t), clock) IN
                IF clock < t.iat + ExpiresInHours THEN g.next
                ELSE ~g.next /\ g.status = 401 /\ g.message = "Token expired"
    /\ \A f \in Forged(issued), router \in ProtectedRouters, now \in 0..MaxAuthClock :
          LET g == Gate(entry, router, Bearer(f), now) IN
          ~g.next /\ g.status = 403 /\ g.message = "Invalid token"
    /\ last.router \in ProtectedRouters =>
          /\ last.token = "genuine" => last.ran
          /\ last.token = "expired" =>
                ~last.ran /\ last.status = 401 /\ last.message = "Token expired"
          /\ last.token = "forged" =>
                ~last.ran /\ last.status = 403 /\ last.message = "Invalid token"

\* a request at exactly T+24h was answered "Token expired" while a forged
\* copy of the same token is at hand
C7_Witness ==
    /\ last.router \in ProtectedRouters
    /\ last.token = "expired"
    /\ last.message = "Token expired"
    /\ \E t \in issued : clock = t.iat + ExpiresInHours
    /\ \E t \in issued : clock < t.exp

\* The account a token was issued for has since changed
Stale(t) ==
    \/ users[t.userId].username # t.username
    \/ ~comparePassword(Ann.password, users[t.userId].password)

\* C8: a token the client discarded at logout, or whose account has since
\* changed its password or username, is accepted on every protected route
\* for as long as it has not expired.
C8_NoRevocation ==
    \A t \in issued :
        (clock < t.exp /\ (t \in discarded \/ Stale(t)))
            => \A router \in ProtectedRouters :
                   /\ Gate(entry, router, Bearer(t), clock).next
                   /\ Gate(entry, router, Bearer(t), clock).user = t

\* a request was served on a token that had been discarded at logout and
\* whose account had changed both password and username since
C8_Witness ==
    /\ Cardinality(issued) = 1
    /\ \A t \in issued :
          /\ t \in discarded
          /\ users[t.userId].username # t.username
          /\ ~comparePassword(Ann.password, users[t.userId].password)
          /\ last.userId = t.userId
    /\ last.op = "getTeamMembers"
    /\ last.ran
    /\ last.token = "genuine"

-----------------------------------------------------------------------------
(* Requests in flight together. A handler runs to its first await (the     *)
(* lookup), other requests may run, and it resumes with its write.         *)

Procs == 1..MaxProcs

\* The inserts that passed their lookup and have not reached the store yet
PendingInserts ==
    Cardinality({p \in Procs : procs[p].pc \in {"registerSave", "addTeamMemberSave"}})

RegisterBegin(p, body) ==
    /\ procs[p] = Idle
    /\ Len(users) + PendingInserts < MaxUsers
    /\ LET r == RegisterLookup(entry, users, body) IN
       IF r # Continue THEN
           /\ last' = Answered("register", "auth", NoHeader, 0, 0, r, "", <<>>)
           /\ UNCHANGED procs
       ELSE
           /\ procs' = [procs EXCEPT ![p] = [pc |-> "registerSave", body |-> body,
                                             userId |-> 0]]
           /\ UNCHANGED last
    /\ UNCHANGED <<entry, allTasks, users, tasks, creator, issued, discarded, clock>>

RegisterEnd(p) ==
    /\ procs[p].pc = "registerSave"
    /\ LET w == RegisterSave(entry, users, procs[p].body) IN
       /\ users' = w.users
       /\ last' = Answered("register", "auth", NoHeader, 0, 0, w, w.cause,
                           IF w.status = 201
                           THEN <<RegisterView(entry, w.users, Len(w.users))>> ELSE <<>>)
    /\ procs' = [procs EXCEPT ![p] = Idle]
    /\ UNCHANGED <<entry, allTasks, tasks, creator, issued, discarded, clock>>

AddTeamMemberBegin(p, h, body) ==
    /\ procs[p] = Idle
    /\ Len(users) + PendingInserts < MaxUsers
    /\ LET g == Gate(entry, "team", h, clock) IN
       IF ~g.next THEN
           /\ last' = Rejected("addTeamMember", "team", h, g)
           /\ UNCHANGED procs
       ELSE
           LET c == AddTeamMemberLookup(entry, users, body) IN
           IF c # Continue THEN
               /\ last' = Answered("addTeamMember", "team", h, g.user.userId, 0, c,
                                   "", <<>>)
               /\ UNCHANGED procs
           ELSE
               /\ procs' = [procs EXCEPT ![p] = [pc |-> "addTeamMemberSave",
                                                 body |-> body,
                                                 userId |-> g.user.userId]]
               /\ UNCHANGED last
    /\ UNCHANGED <<entry, allTasks, users, tasks, creator, issued, discarded, clock>>

AddTeamMemberEnd(p) ==
    /\ procs[p].pc = "addTeamMemberSave"
    /\ LET r == AddTeamMemberSave(entry, users, procs[p].body) IN
       /\ users' = r.users
       /\ last' = [Answered("addTeamMember", "team", NoHeader, procs[p].userId, 0, r,
                            r.cause,
                            IF r.status = 201 THEN <<AccountView(r.users, Len(r.users))>>
                            ELSE <<>>) EXCEPT !.token = "genuine"]
    /\ procs' = [procs EXCEPT ![p] = Idle]
    /\ UNCHANGED <<entry, allTasks, tasks, creator, issued, discarded, clock>>

UpdateProfileBegin(p, h, body) ==
    /\ procs[p] = Idle
    /\ LET g == Gate(entry, "user", h, clock) IN
       IF ~g.next THEN
           /\ last' = Rejected("updateProfile", "user", h, g)
           /\ UNCHANGED procs
       ELSE
           LET c == UpdateProfileLookup(entry, users, g.user.userId, body) IN
           IF c # Continue THEN
               /\ last' = Answered("updateProfile", "user", h, g.user.userId, 0, c,
                                   "", <<>>)
               /\ UNCHANGED procs
           ELSE
               /\ procs' = [procs EXCEPT ![p] = [pc |-> "updateProfileUpdate",
                                                 body |-> body,
                                                 userId |-> g.user.userId]]
               /\ UNCHANGED last
    /\ UNCHANGED <<entry, allTasks, users, tasks, creator, issued, discarded, clock>>

UpdateProfileEnd(p) ==
    /\ procs[p].pc = "updateProfileUpdate"
    /\ LET r == UpdateProfileUpdate(entry, users, procs[p].userId, procs[p].body) IN
       /\ users' = r.users
       /\ last' = [Answered("updateProfile", "user", NoHeader, procs[p].userId, 0, r,
                            r.cause,
                            IF r.status = 200 THEN <<View(r.users, procs[p].userId)>>
                            ELSE <<>>) EXCEPT !.token = "genuine"]
    /\ procs' = [procs EXCEPT ![p] = Idle]
    /\ UNCHANGED <<entry, allTasks, tasks, creator, issued, discarded, clock>>

\* Accounts that collide with Ann's: on the username, on the email as the
\* schema stores it, on neither
AnnAgain == [username |-> " ann ", email |-> "c@x.io", password |-> "secret9"]
AnnMail == [username |-> "cat", email |-> "A@X.io", password |-> "secret9"]

NewAccounts == {Ann, Bob, AnnAgain, AnnMail}

NextConc ==
    \/ \E p \in Procs, b \in NewAccounts : RegisterBegin(p, b)
    \/ \E p \in Procs : RegisterEnd(p)
    \/ \E b \in {Ann, Bob} : Login(Credentials(b))
    \/ \E p \in Procs, h \in IssuedHeaders, b \in NewAccounts : AddTeamMemberBegin(p, h, b)
    \/ \E p \in Procs : AddTeamMemberEnd(p)
    \/ \E p \in Procs, h \in IssuedHeaders, b \in {Rename, [username |-> "bob"]} :
          UpdateProfileBegin(p, h, b)
    \/ \E p \in Procs : UpdateProfileEnd(p)

SpecConc == Init /\ [][NextConc]_vars

\* C9: no two stored accounts share a username and no two share an email,
\* however register, team-add and profile-update requests interleave.
C9_UsernameAndEmailUnique ==
    \A i, j \in UserIds(users) :
        i # j => users[i].username # users[j].username /\ users[i].email # users[j].email

\* a profile update that had passed its lookup was stopped by the unique
\* index, another request having stored the username in between
C9_Witness ==
    /\ last.op = "updateProfile"
    /\ last.cause = "E11000"
    /\ Len(users) = MaxUsers

\* C10: a register whose insert hits the uniqueness violation of the
\* storage layer, after passing its lookup, is answered 400 and not 500,
\* and the colliding account is stored once.
C10_RacedRegisterIsDuplicate ==
    (last.op = "register" /\ last.cause = "E11000") =>
        /\ last.status = 400
        /\ C9_UsernameAndEmailUnique

-----------------------------------------------------------------------------
(* Accounts: register, login, password and profile updates, the team.      *)

WrongPassword == [email |-> Ann.email, password |-> "secret9"]
NoAccount == [email |-> "c@x.io", password |-> Ann.password]

LoginBodies ==
    {Credentials(Ann), Credentials(Bob), WrongPassword, NoAccount,
     [email |-> "A@X.io", password |-> NewPassword.newPassword],
     [email |-> Ann.email]}

PasswordBodies ==
    {NewPassword,
     [currentPassword |-> "secret9", newPassword |-> "secret3"],
     [currentPassword |-> "secret9", newPassword |-> "abc"],
     [currentPassword |-> "secret1", newPassword |-> "abc"],
     [currentPassword |-> "secret1", newPassword |-> "secret1"],
     [currentPassword |-> "secret1"]}

ProfileBodies ==
    {Rename, [bio |-> "hi"], [phone |-> "   "],
     [username |-> " ann ", email |-> "z@x.io"],
     [bio |-> "admin me", email |-> "z@x.io", role |-> "admin", password |-> "secret9"],
     [email |-> "z@x.io", role |-> "admin"],
     [username |-> "ab"]}

MemberBodies ==
    {Bob, [username |-> "bob", email |-> "b@x.io", password |-> "secret2", role |-> "admin"],
     [username |-> "bob", email |-> "b@x.io", password |-> "secret2", role |-> "root"],
     AnnMail, [username |-> "bo", email |-> "b@x.io", password |-> "secret2"]}

NextAccounts ==
    \/ \E b \in {Ann, AnnAgain, [username |-> "bob", email |-> "b@x", password |-> "secret2"]} : Register(b)
    \/ \E b \in LoginBodies : Login(b)
    \/ \E h \in IssuedHeaders, b \in PasswordBodies : UpdatePassword(h, b)
    \/ \E h \in IssuedHeaders, b \in ProfileBodies : UpdateProfile(h, b)
    \/ \E h \in IssuedHeaders : GetTeamMembers(h)
    \/ \E h \in IssuedHeaders, b \in MemberBodies : AddTeamMember(h, b)

SpecAccounts == Init /\ [][NextAccounts]_vars

\* The emails and passwords a login is tried with
LoginEmails == {"a@x.io", "A@X.io", "b@x.io", "c@x.io", " a@x.io "}
LoginPasswords == {"secret1", "secret2", "secret3", "secret9", "abc", ""}

HasAccount(email) == \E u \in UserIds(users) : users[u].email = EmailSetter(email)

\* C11: login answers an email that matches no account and the email of an
\* account given with a wrong password alike, in status and in message:
\* 401 "Invalid credentials." when a password was sent; neither gets a token.
C11_LoginDoesNotTellAccountsApart ==
    \A known \in LoginEmails, unknown \in LoginEmails, pw \in LoginPasswords :
        LET a == login(users, [email |-> known, password |-> pw], clock)
            b == login(users, [email |-> unknown, password |-> pw], clock)
        IN  (HasAccount(known) /\ ~HasAccount(unknown) /\ a.status # 200) =>
                /\ a.status = b.status
                /\ a.message = b.message
                /\ a.token = <<>> /\ b.token = <<>>
                /\ pw # "" => a.status = 401 /\ a.message = "Invalid credentials."

\* both refusals have been given: the last login failed on the password of
\* an account, and one for an unknown email is answered in the same state
C11_Witness ==
    /\ last.op = "login" /\ last.status = 401 /\ last.cause = "password"
    /\ login(users, NoAccount, clock).cause = "email"
    /\ login(users, WrongPassword, clock).cause = "password"

AccountViewOps == {"register", "login", "updateProfile", "getTeamMembers", "addTeamMember"}

\* C12: no account view in a response of register, login, profile update,
\* team list or team add carries the password field of the account.
C12_NoPasswordInAccountViews ==
    /\ last.op \in AccountViewOps =>
          \A i \in DOMAIN last.data : "password" \notin DOMAIN last.data[i]
    /\ \A u \in UserIds(users) :
          /\ "password" \notin DOMAIN RegisterView(entry, users, u)
          /\ "password" \notin DOMAIN AccountView(users, u)
          /\ "password" \notin DOMAIN View(users, u)
          /\ "password" \in DOMAIN users[u]

\* the team list was answered with the views of two stored accounts
C12_Witness ==
    /\ last.op = "getTeamMembers"
    /\ last.status = 200
    /\ Len(last.data) = MaxUsers
    /\ \A i \in DOMAIN last.data : last.data[i].username = users[last.data[i]._id].username

\* C13: the stored password of every account is the bcrypt hash of a
\* plaintext, never the plaintext; register, team add and password update
\* store the hash of the password they were sent, and a profile update
\* leaves every stored password as it was.
C13_StoredState ==
    /\ \A u \in UserIds(users) :
          /\ users[u].password \in {bcryptHash(pw) : pw \in LoginPasswords}
          /\ users[u].password.alg = "bcrypt"
          /\ \A b \in PasswordBodies :
                LET r == updatePassword(users, u, b) IN
                r.status = 200 => r.users[u].password = bcryptHash(b.newPassword)
    /\ \A b \in {Ann, Bob, AnnAgain, AnnMail} :
          /\ LET r == RegisterSave(entry, users, b) IN
             r.status = 201 => r.users[Len(r.users)].password = bcryptHash(b.password)
          /\ LET r == AddTeamMemberSave(entry, users, b) IN
             r.status = 201 => r.users[Len(r.users)].password = bcryptHash(b.password)

C13_ProfileStep ==
    (last' # last /\ last'.op = "updateProfile")
        => \A u \in UserIds(users) : users'[u].password = users[u].password

C13_PasswordStoredHashed == [](C13_StoredState) /\ [][C13_ProfileStep]_vars

\* an account whose password was replaced and whose profile was then
\* updated holds the hash of the new password
C13_Witness ==
    /\ last.op = "updateProfile" /\ last.status = 200
    /\ users[last.userId].password = bcryptHash(NewPassword.newPassword)
    /\ users[last.userId].username = "cat"
    /\ Len(users) = MaxUsers

Supplied(body) == ProfileFields \cap DOMAIN body

\* C14: a profile update writes the trimmed value of each of username,
\* phone, bio and avatarUrl the body supplies and nothing else: unsupplied
\* fields, email, role and password stay as they were whatever the body
\* holds, and no other account changes.
C14_State ==
    \A u \in UserIds(users), body \in ProfileBodies :
        LET r == UpdateProfileUpdate(entry, users, u, body) IN
        /\ \A v \in UserIds(users) : v # u => r.users[v] = users[v]
        /\ Len(r.users) = Len(users)
        /\ \A f \in DOMAIN users[u] \ Supplied(body) : r.users[u][f] = users[u][f]
        /\ r.status = 200 => \A f \in Supplied(body) : r.users[u][f] = Trim(body[f])
        /\ r.status # 200 => r.users = users

C14_Step ==
    (last' # last /\ last'.op = "updateProfile") =>
        /\ Len(users') = Len(users)
        /\ \A u \in UserIds(users) :
              /\ users'[u].email = users[u].email
              /\ users'[u].role = users[u].role
              /\ users'[u].password = users[u].password
              /\ u # last'.userId => users'[u] = users[u]

C14_ProfileUpdateFrame == [](C14_State) /\ [][C14_Step]_vars

\* a body that set the bio and also carried email, role and password was
\* answered 200
C14_Witness ==
    /\ last.op = "updateProfile" /\ last.status = 200
    /\ users[last.userId].bio = "admin me"
    /\ users[last.userId].email = Ann.email
    /\ users[last.userId].role = "user"
    /\ last.data[1].role = "user"

NoValue == "undefined"

AnyPasswordBody ==
    {[f \in {x \in {"currentPassword"} : c # NoValue}
            \cup {x \in {"newPassword"} : n # NoValue} |->
         IF f = "currentPassword" THEN c ELSE n] :
       c \in LoginPasswords \cup {NoValue}, n \in LoginPasswords \cup {NoValue}}

\* C15: updatePassword replaces the stored password exactly when both
\* fields are sent, newPassword has six characters or more and differs from
\* currentPassword, and currentPassword matches the stored hash. A short or
\* identical newPassword is answered 400, a wrong currentPassword with an
\* acceptable newPassword 401, and every refusal leaves the stored password
\* as it was, so the passwords that logged in before still do.
C15_State ==
    \A u \in UserIds(users), body \in AnyPasswordBody :
        LET r == updatePassword(users, u, body)
            sent == ~Missing(body, "currentPassword") /\ ~Missing(body, "newPassword")
            fits == sent /\ Len(body.newPassword) >= 6
                         /\ body.newPassword # body.currentPassword
            matches == sent /\ comparePassword(body.currentPassword, users[u].password)
        IN  /\ r.users # users => fits /\ matches
            /\ (fits /\ matches) =>
                  /\ r.status = 200
                  /\ r.users[u].password = bcryptHash(body.newPassword)
            /\ (sent /\ ~fits) => r.status = 400
            /\ (fits /\ ~matches) =>
                  r.status = 401 /\ r.message = "Incorrect current password."
            /\ r.status # 200 =>
                  /\ r.users = users
                  /\ \A pw \in LoginPasswords :
                        login(users, [email |-> users[u].email, password |-> pw], clock).status
                        = login(r.users, [email |-> users[u].email, password |-> pw],
                                clock).status

C15_Step ==
    (last' # last /\ last'.op = "updatePassword" /\ last'.status # 200)
        => users' = users

C16_StatusUpdateIsListed ==
    \A u \in UserIds(users), t \in tasks, s \in Statuses :
        t.createdBy = u =>
            LET r == updateTask(entry, tasks, u, t._id, [status |-> s], clock) IN
            /\ r.status = 200
            /\ \A q \in getTasks(r.tasks, u) :
                  \E i \in DOMAIN q :
                      /\ q[i]._id = t._id
                      /\ q[i].status = s
                      /\ q[i].updatedAt = clock
                      /\ q[i].updatedAt >= t.updatedAt
                      /\ clock > t.updatedAt => q[i].updatedAt > t.updatedAt
                      /\ \A f \in DOMAIN t \ {"status", "updatedAt"} : q[i][f] = t[f]
                      /\ r.tasks \ {q[i]} = tasks \ {t}
            /\ getTasks(r.tasks, u) # {}

\* the owner's PATCH was answered 200 and the stored task has the new
\* status, a later updatedAt and the createdAt it was made with
C16_Witness ==
    /\ last.op = "updateTask" /\ last.status = 200
    /\ \E t \in tasks :
          /\ t._id = last.taskId
          /\ t.createdBy = last.userId /\ creator[t._id] = last.userId
          /\ t.status = "completed"
          /\ t.updatedAt > t.createdAt
    /\ Cardinality(tasks) = MaxTasks

HasTitleAndDueDate(body) ==
    /\ ~Missing(body, "title")
    /\ ~Missing(body, "dueDate")
    /\ ParseDate(body.dueDate) # NaN

\* C18: create stores a task only for a body with a title and a due date
\* that parses, and answers every other body 400 with nothing stored; the
\* one task it stores has priority "medium" when the body has no priority
\* and status "pending" when it has no status.
C18_CreateValidatesAndDefaults ==
    \A u \in UserIds(users), body \in AnyCreateBody :
        LET r == createTask(entry, tasks, u, body, NextTaskId, clock) IN
        /\ r.tasks # tasks => HasTitleAndDueDate(body) /\ r.status = 201
        /\ ~HasTitleAndDueDate(body) => r.status = 400 /\ r.tasks = tasks
        /\ r.status # 201 => r.tasks = tasks
        /\ r.status = 201 => Cardinality(r.tasks \ tasks) = 1 /\ tasks \subseteq r.tasks
        /\ \A d \in r.tasks \ tasks :
              /\ d.dueDate = ParseDate(body.dueDate)
              /\ Missing(body, "priority") => d.priority = "medium"
              /\ Missing(body, "status") => d.status = "pending"
              /\ ~Missing(body, "priority") => d.priority = body.priority
              /\ ~Missing(body, "status") => d.status = body.status
        /\ body = BuyMilk => r.status = 201

\* a body with no due date was just refused while a task created from a
\* title and a due date alone is stored with the defaults
C18_Witness ==
    /\ last.op = "createTask" /\ last.ran /\ last.status = 400
    /\ \E d \in tasks : d.priority = "medium" /\ d.status = "pending"
                        /\ d.dueDate = ParseDate(BuyMilk.dueDate)

-----------------------------------------------------------------------------
(* Task creation with its notification: the handler between its awaits.    *)

\* res.status(201).json(...) after savedTask = await newTask.save()
SendCreated(responses) == Append(responses, 201)

CatchEmailError_Answers500(responses) == Append(responses, 500)

\* catch (emailError): console.error, the response already sent is left alone
CatchEmailError(responses) == responses

\* What User.findById(userId).select("email username") comes back with
LookupOutcomes == {"found", "null", "throws"}

\* The configurations initializeTransporter tells apart (NODE_ENV and the
\* EMAIL_ variables), and whether the initialization started at load has
\* finished
EmailConfigs == {"development", "service", "none"}
InitPhases == {"pending", "done"}

\* let transporter: the Ethereal transporter of a development build is
\* assigned after createTestAccount has answered, the real and the dummy
\* transporter before the module has finished loading
TransporterAt(config, phase) ==
    CASE config = "development" -> IF phase = "pending" THEN "unset" ELSE "ethereal"
      [] config = "service" -> "real"
      [] config = "none" -> "dummy"

\* The transporter when sendTaskCreationEmail runs, and what sendMail does
TransportOutcomes ==
    {"sent", "sendMail rejects"}
    \cup {"no transporter" : x \in {y \in EmailConfigs \X InitPhases :
                                      TransporterAt(y[1], y[2]) = "unset"}}

\* sendTaskCreationEmail, called and not awaited: its own try/catch logs a
\* rejected sendMail; with no transporter index.js returns, and the
\* getTransporter() of config/email.js throws inside the async function,
\* which rejects a promise nobody awaits
SendTaskCreationEmail(e, outcome) ==
    CASE outcome = "sent" -> "sent"
      [] outcome = "sendMail rejects" -> "logged"
      [] outcome = "no transporter" -> IF e = "index" THEN "logged" ELSE "rejected unawaited"

CreateSave(p, h, body) ==
    /\ procs[p].pc \in {"idle", "created"}
    /\ Len(creator) < MaxTasks
    /\ LET g == Gate(entry, "tasks", h, clock) IN
       IF ~g.next THEN
           /\ last' = Rejected("createTask", "tasks", h, g)
           /\ UNCHANGED <<tasks, creator, procs>>
       ELSE
           LET r == createTask(entry, tasks, g.user.userId, body, NextTaskId, clock) IN
           IF r.status # 201 THEN
               /\ last' = Answered("createTask", "tasks", h, g.user.userId, 0, r, "", <<>>)
               /\ UNCHANGED <<tasks, creator, procs>>
           ELSE
               /\ tasks' = r.tasks
               /\ creator' = Append(creator, g.user.userId)
               /\ procs' = [procs EXCEPT ![p] =
                               [pc |-> "saved", userId |-> g.user.userId,
                                taskId |-> NextTaskId, responses |-> <<>>,
                                mail |-> "none"]]
               /\ UNCHANGED last
    /\ UNCHANGED <<entry, allTasks, users, issued, discarded, clock>>

CreateRespond(p) ==
    /\ procs[p].pc = "saved"
    /\ procs' = [procs EXCEPT ![p].pc = "lookup",
                              ![p].responses = SendCreated(procs[p].responses)]
    /\ last' = [Answered("createTask", "tasks", NoHeader, procs[p].userId, procs[p].taskId,
                         [status |-> 201, message |-> "Task created successfully!"], "",
                         <<>>) EXCEPT !.token = "genuine"]
    /\ UNCHANGED <<entry, allTasks, users, tasks, creator, issued, discarded, clock>>

CreateNotify(p, lookup, transport) ==
    /\ procs[p].pc = "lookup"
    /\ procs' = [procs EXCEPT
                    ![p].pc = "created",
                    ![p].responses = IF lookup = "throws"
                                     THEN CatchEmailError(procs[p].responses)
                                     ELSE procs[p].responses,
                    ![p].mail = CASE lookup = "throws" -> "lookup failed"
                                  [] lookup = "null" -> "no owner"
                                  [] OTHER -> SendTaskCreationEmail(entry, transport)]
    /\ UNCHANGED <<entry, allTasks, users, tasks, creator, issued, discarded, clock, last>>

NextNotify ==
    \/ Register(Ann)
    \/ Login(Credentials(Ann))
    \/ \E p \in Procs, h \in IssuedHeaders, b \in {BuyMilk, [title |-> "Buy milk"]} :
          CreateSave(p, h, b)
    \/ \E p \in Procs : CreateRespond(p)
    \/ \E p \in Procs, l \in LookupOutcomes, t \in TransportOutcomes : CreateNotify(p, l, t)
    \/ \E h \in IssuedHeaders : GetTasks(h)

SpecNotify == Init /\ [][NextNotify]_vars

Creating(p) == procs[p].pc \in {"saved", "lookup", "created"}

\* C17: the notification of a created task is attempted only once the task
\* is stored and 201 has been sent, and whatever the owner lookup and the
\* transport do, the request has that one 201 response and the task stays
\* stored.
C17_State ==
    \A p \in Procs :
        Creating(p) =>
            /\ \E t \in tasks : t._id = procs[p].taskId /\ t.createdBy = procs[p].userId
            /\ procs[p].pc = "saved" => procs[p].responses = <<>> /\ procs[p].mail = "none"
            /\ procs[p].pc = "lookup" => procs[p].responses = <<201>> /\ procs[p].mail = "none"
            /\ procs[p].pc = "created" => procs[p].responses = <<201>>
            /\ procs[p].mail # "none" => procs[p].responses = <<201>>

C17_Step ==
    \A p \in Procs :
        (procs[p].pc = "lookup" /\ procs'[p].pc = "created") =>
            /\ tasks' = tasks
            /\ procs'[p].responses = procs[p].responses
            /\ last' = last

C17_NotificationAfterResponse == [](C17_State) /\ [][C17_Step]_vars

\* both requests are through, one with a failed owner lookup and one whose
\* mail was rejected by the transport, each with its one 201 and its task
C17_Witness ==
    /\ \A p \in Procs : procs[p].pc = "created" /\ procs[p].responses = <<201>>
    /\ \E p \in Procs : procs[p].mail = "lookup failed"
    /\ \E p \in Procs : procs[p].mail \in {"logged", "rejected unawaited"}
    /\ Cardinality(tasks) = MaxTasks

\* C19: the owner's DELETE of a task removes that task and no other; the
\* task is then in none of the owner's listings, and another delete or a
\* status update of the same id is answered 404.
C19_DeleteRemovesExactlyThatTask ==
    \A u \in UserIds(users), t \in tasks :
        t.createdBy = u =>
            LET r == DeleteResponse(entry, tasks, u, t._id) IN
            /\ r.status = 200
            /\ r.tasks = tasks \ {t}
            /\ \A q \in getTasks(r.tasks, u) : \A i \in DOMAIN q : q[i]._id # t._id
            /\ DeleteResponse(entry, r.tasks, u, t._id).status = 404
            /\ updateTask(entry, r.tasks, u, t._id, [status |-> "completed"], clock).status
               = 404

-----------------------------------------------------------------------------
(* Every route, with bodies that each handler accepts and refuses.         *)

NextAll ==
    \/ \E b \in {Ann, AnnAgain, [username |-> "bob", email |-> "b@x", password |-> "secret2"]} :
          Register(b)
    \/ \E b \in {Credentials(Ann), WrongPassword} : Login(b)
    \/ \E h \in AnyHeader, b \in {BuyMilk, [title |-> "Buy milk"]} : CreateTask(h, b)
    \/ \E h \in AnyHeader : GetTasks(h)
    \/ \E h \in AnyHeader, id \in TaskIds,
          b \in {[status |-> "completed"], [status |-> "bogus"], [title |-> "ab"]} :
          UpdateTask(h, id, b)
    \/ \E h \in AnyHeader, id \in TaskIds : DeleteTask(h, id)
    \/ \E h \in AnyHeader,
          b \in {NewPassword, [currentPassword |-> "secret9", newPassword |-> "secret3"],
                 [currentPassword |-> "secret1", newPassword |-> "abc"]} :
          UpdatePassword(h, b)
    \/ \E h \in AnyHeader, b \in {[bio |-> "hi"], [username |-> "ab"], [username |-> "bob"]} :
          UpdateProfile(h, b)
    \/ \E h \in AnyHeader : GetTeamMembers(h)
    \/ \E h \in AnyHeader, b \in {Bob, AnnMail} : AddTeamMember(h, b)

SpecAll == Init /\ [][NextAll]_vars

ClientErrors == {400, 401, 403, 404}

\* C20: a request answered 400, 401, 403 or 404 leaves the stored accounts
\* and tasks as they were: for every handler and body, a result with one of
\* these statuses carries the store it was given, and every step that
\* records such an answer changes neither users nor tasks.
C20_State ==
    /\ \A u \in UserIds(users) :
          /\ \A id \in TaskIds, body \in AnyUpdateBody :
                LET r == updateTask(entry, tasks, u, id, body, clock) IN
                r.status \in ClientErrors => r.tasks = tasks
          /\ \A id \in TaskIds :
                LET r == DeleteResponse(entry, tasks, u, id) IN
                r.status \in ClientErrors => r.tasks = tasks
          /\ \A body \in AnyCreateBody :
                LET r == createTask(entry, tasks, u, body, NextTaskId, clock) IN
                r.status \in ClientErrors => r.tasks = tasks
          /\ \A body \in AnyPasswordBody :
                LET r == updatePassword(users, u, body) IN
                r.status \in ClientErrors => r.users = users
          /\ \A body \in ProfileBodies :
                LET r == UpdateProfileUpdate(entry, users, u, body) IN
                r.status \in ClientErrors => r.users = users
    /\ \A body \in NewAccounts \cup MemberBodies :
          /\ LET r == RegisterSave(entry, users, body) IN
             r.status \in ClientErrors => r.users = users
          /\ LET r == AddTeamMemberSave(entry, users, body) IN
             r.status \in ClientErrors => r.users = users
    /\ \A body \in LoginBodies :
          login(users, body, clock).status \in ClientErrors =>
              login(users, body, clock).token = <<>>

C20_Step ==
    (last' # last /\ last'.status \in ClientErrors)
        => UNCHANGED <<users, tasks, creator, issued>>

C20_ErrorsLeaveStoreUnchanged == [](C20_State) /\ [][C20_Step]_vars

\* a PATCH of a stored task by its owner was just refused by validation
C20_Witness ==
    /\ last.op = "updateTask" /\ last.ran /\ last.status = 400
    /\ \E t \in tasks : t._id = last.taskId /\ t.createdBy = last.userId
    /\ Len(users) = MaxUsers

-----------------------------------------------------------------------------
(* Exceptions: where a handler's storage calls and responses sit relative  *)
(* to its try blocks, and where a thrown exception goes.                   *)

Handlers ==
    {"register", "login", "getTeamMembers", "addTeamMember", "updatePassword",
     "updateProfile", "createTask", "getTasks", "updateTask", "deleteTask"}

\* An awaited storage call, a response, a statement that runs before try
Await(call, in) == [k |-> "await", what |-> call, in |-> in]
Send(status, in) == [k |-> "send", what |-> status, in |-> in]
Sync(what, in) == [k |-> "sync", what |-> what, in |-> in]

\* The statements of each handler on the path that reaches all of them, in
\* order, each with the try block it is written in
Program(e, op) ==
    CASE op = "register" ->
            <<Await("User.findOne", "try"), Await("newUser.save", "try"), Send(201, "try")>>
      [] op = "login" ->
            IF e = "app"
            THEN <<Await("User.findOne", "try"), Send(200, "try")>>
            ELSE <<Await("User.findOne", "try"), Await("User.findOne", "try"),
                   Send(200, "try")>>
      [] op = "getTeamMembers" -> <<Await("User.find", "try"), Send(200, "try")>>
      [] op = "addTeamMember" ->
            <<Await("User.findOne", "try"), Await("newUser.save", "try"), Send(201, "try")>>
      [] op = "updatePassword" ->
            <<Await("User.findById", "try"), Await("user.save", "try"), Send(200, "try")>>
      [] op = "updateProfile" ->
            IF e = "app"
            THEN <<Sync("trim", "none"), Await("User.findOne", "try"),
                   Await("User.findByIdAndUpdate", "try"), Send(200, "try")>>
            ELSE <<Sync("trim", "none"), Await("User.findById", "try"),
                   Await("User.findOne", "try"),
                   Await("User.findByIdAndUpdate", "try"), Send(200, "try")>>
      [] op = "createTask" ->
            <<Await("newTask.save", "try"), Send(201, "try"),
              Await("User.findById", "inner try")>>
      [] op = "getTasks" -> <<Await("Task.find", "try"), Send(200, "try")>>
      [] op = "updateTask" -> <<Await("Task.findOneAndUpdate", "try"), Send(200, "try")>>
      [] op = "deleteTask" -> <<Await("Task.findOneAndDelete", "try"), Send(200, "try")>>

\* Where control goes when a statement throws: the catch of the try block
\* it is in, or out of the async handler
ThrowTarget_NoTry(in) == "escapes"

ThrowTarget(in) ==
    CASE in = "inner try" -> "catch (emailError)"
      [] in = "try" -> "catch (error)"
      [] in = "none" -> "escapes"

\* catch (error) of a handler for an error that is no ValidationError and
\* has no code 11000: createTask answers 500 unless headersSent, every
\* other handler answers 500 (res.json throws once a response is out)
OuterCatch(op, responses) ==
    IF responses = <<>> THEN [responses |-> <<500>>, escapes |-> FALSE]
    ELSE IF op = "createTask" THEN [responses |-> responses, escapes |-> FALSE]
    ELSE [responses |-> responses, escapes |-> TRUE]

\* The major versions of express a build can install: 4 drops the rejected
\* promise of an async handler, 5 passes it to next(err)
ExpressMajors == {4, 5}

\* app.use((err, req, res, next) => ...): err.status || 500
FallbackHandler(responses) ==
    IF responses = <<>> THEN <<500>> ELSE responses

\* An exception that leaves an async route handler
Escape(express, r) ==
    IF express = 5
    THEN [r EXCEPT !.pc = "handled", !.responses = FallbackHandler(r.responses),
                   !.fallback = TRUE]
    ELSE [r EXCEPT !.pc = "handled", !.unhandledRejection = TRUE]

\* A statement of the handler has thrown
Raise(express, r, in, kind) ==
    LET t == [r EXCEPT !.thrown = kind, !.sentBefore = Len(r.responses)] IN
    CASE ThrowTarget(in) = "catch (emailError)" ->
            [t EXCEPT !.pc = "handled", !.responses = CatchEmailError(r.responses)]
      [] ThrowTarget(in) = "catch (error)" ->
            LET c == OuterCatch(r.op, r.responses) IN
            IF c.escapes THEN Escape(express, t)
            ELSE [t EXCEPT !.pc = "handled", !.responses = c.responses]
      [] OTHER -> Escape(express, t)

\* A request reaches its handler
Arrive(p, op) ==
    /\ procs[p].pc \in {"idle", "handled"}
    /\ RouteExists(entry, op)
    /\ procs' = [procs EXCEPT ![p] =
                    [pc |-> "handling", op |-> op, at |-> 1, responses |-> <<>>,
                     thrown |-> "none", sentBefore |-> 0, fallback |-> FALSE,
                     unhandledRejection |-> FALSE]]
    /\ UNCHANGED <<entry, allTasks, users, tasks, creator, issued, discarded, clock, last>>

\* The handler runs its next statement, which throws or does not: an await
\* throws when the storage call fails, trim throws on a field that is no
\* string
Run(p, throws, express) ==
    /\ procs[p].pc = "handling"
    /\ LET r == procs[p]
           i == Program(entry, r.op)[r.at]
           next == [r EXCEPT !.at = r.at + 1,
                             !.pc = IF r.at = Len(Program(entry, r.op))
                                    THEN "handled" ELSE "handling"]
       IN
       procs' = [procs EXCEPT ![p] =
                   CASE i.k = "await" /\ throws -> Raise(express, r, i.in, "storage")
                     [] i.k = "sync" /\ throws -> Raise(express, r, i.in, "handler")
                     [] i.k = "send" -> [next EXCEPT !.responses = Append(r.responses, i.what)]
                     [] OTHER -> next]
    /\ UNCHANGED <<entry, allTasks, users, tasks, creator, issued, discarded, clock, last>>

NextFaults ==
    \/ \E p \in Procs, op \in Handlers : Arrive(p, op)
    \/ \E p \in Procs, throws \in BOOLEAN, express \in ExpressMajors : Run(p, throws, express)

SpecFaults == Init /\ [][NextFaults]_vars

Handled(p) == procs[p].pc = "handled"

\* C21: a storage call that fails in any handler is caught in that handler:
\* no rejected promise is left unhandled, the request has exactly one
\* response, and the response is 500 when none had been sent before the
\* failure.
C21_StorageFailuresAreCaught ==
    \A p \in Procs :
        (Handled(p) /\ procs[p].thrown = "storage") =>
            /\ ~procs[p].unhandledRejection
            /\ ~procs[p].fallback
            /\ Len(procs[p].responses) = 1
            /\ procs[p].sentBefore = 0 => procs[p].responses = <<500>>

\* one request lost its storage before any response and another, a task
\* creation, lost it after its 201
C21_Witness ==
    /\ \A p \in Procs : Handled(p) /\ procs[p].thrown = "storage"
    /\ \E p \in Procs : procs[p].sentBefore = 0 /\ procs[p].responses = <<500>>
    /\ \E p \in Procs : procs[p].op = "createTask" /\ procs[p].sentBefore = 1
                        /\ procs[p].responses = <<201>>

\* C22: an exception a handler does not catch reaches the fallback handler
\* and the request is answered 500.
C22_UncaughtReachesFallback ==
    \A p \in Procs :
        (Handled(p) /\ procs[p].thrown = "handler") =>
            /\ procs[p].fallback
            /\ procs[p].responses = <<500>>

TeamOps == {"getTeamMembers", "addTeamMember"}

\* C23: the team operations check no role. Every member body that passes
\* the handler's checks is stored with the role it names ("user" when it
\* names none), the list has every account in username order, and a team
\* request with a genuine token is never turned away, whatever role the
\* token carries.
C23_State ==
    /\ \A body \in MemberBodies :
          (AddTeamMemberLookup(entry, users, body) = Continue
           /\ AddTeamMemberSave(entry, users, body).status = 201) =>
              LET r == AddTeamMemberSave(entry, users, body) IN
              /\ Len(r.users) = Len(users) + 1
              /\ r.users[Len(r.users)].role =
                    IF Missing(body, "role") THEN "user" ELSE body.role
    /\ \A q \in getTeamMembers(users) :
          /\ {q[i]._id : i \in DOMAIN q} = UserIds(users)
          /\ \A i \in DOMAIN q : q[i] = View(users, q[i]._id)
          /\ \A i, j \in DOMAIN q :
                i < j => UsernameRank(q[i].username) <= UsernameRank(q[j].username)

C23_Step ==
    (last' # last /\ last'.op \in TeamOps /\ last'.token = "genuine") =>
        /\ last'.ran
        /\ last'.status # 403
        /\ last'.op = "getTeamMembers" =>
              last'.status = 200 /\ last'.data \in getTeamMembers(users)
        /\ (last'.op = "addTeamMember" /\ last'.status = 201) =>
              /\ Len(users') = Len(users) + 1
              /\ users'[Len(users')].role = last'.data[1].role

C23_TeamHasNoRoleCheck == [](C23_State) /\ [][C23_Step]_vars

\* a caller whose role is "user" has just created an account with role
\* "admin"
C23_Witness ==
    /\ last.op = "addTeamMember" /\ last.ran /\ last.status = 201
    /\ users[last.userId].role = "user"
    /\ users[Len(users)].role = "admin"
    /\ last.data[1].role = "admin"

\* The fields of an account that differ between two copies of it
Differ(a, b) == {f \in DOMAIN a : a[f] # b[f]}

\* C24: no step removes an account or changes its email or role; an
\* account changes only by a profile update, in username, phone, bio or
\* avatar, or by a password update, in its password; accounts are added
\* only by registration and team add.
C24_AccountsOnlyChangeByProfileAndPassword ==
    [][ /\ Len(users') >= Len(users)
        /\ Len(users') > Len(users) =>
              /\ Len(users') = Len(users) + 1
              /\ last'.op \in {"register", "addTeamMember"} /\ last'.status = 201
        /\ \A i \in UserIds(users) :
              /\ users'[i].email = users[i].email
              /\ users'[i].role = users[i].role
              /\ users'[i] # users[i] =>
                    \/ /\ last'.op = "updateProfile" /\ last'.userId = i
                       /\ Differ(users[i], users'[i]) \subseteq ProfileFields
                    \/ /\ last'.op = "updatePassword" /\ last'.userId = i
                       /\ Differ(users[i], users'[i]) = {"password"}
      ]_vars

\* an admin account made by team add stands next to an account that has
\* been through a profile update and a password update
C24_Witness ==
    /\ Len(users) = MaxUsers
    /\ users[1].bio = "admin me"
    /\ comparePassword(NewPassword.newPassword, users[1].password)
    /\ users[1].email = Ann.email /\ users[1].role = "user"
    /\ users[2].role = "admin"

\* Bodies that aim at each constrained path of a task
TaskFieldBodies ==
    AnyUpdateBody \cup AnyCreateBody
    \cup {[dueDate |-> d] : d \in {"soon", "", "2025-02-01"}}
    \cup {[title |-> t] : t \in {"", "   "}}
    \cup {[priority |-> ""], [status |-> "completed", priority |-> "urgent"],
          [title |-> "Buy milk", dueDate |-> "2025-01-01", priority |-> "urgent"],
          [title |-> "Buy milk", dueDate |-> "2025-01-01", status |-> "bogus"],
          [title |-> "   ", dueDate |-> "2025-01-01"]}

WellFormed(t) ==
    /\ t.priority \in Priorities
    /\ t.status \in Statuses
    /\ Len(t.title) >= 3
    /\ t.dueDate # NaN

\* C25: every stored task has a priority and a status of the schema's
\* enums, a title of three characters or more and a due date, and no
\* create or update body takes a store of such tasks to one without.
C25_StoredTasksAreWellFormed ==
    /\ \A t \in tasks : WellFormed(t)
    /\ \A u \in UserIds(users), body \in TaskFieldBodies :
          /\ \A t \in createTask(entry, tasks, u, body, NextTaskId, clock).tasks :
                WellFormed(t)
          /\ \A id \in TaskIds :
                \A t \in updateTask(entry, tasks, u, id, body, clock).tasks : WellFormed(t)

\* the store is full, and a task in it has been through an update
C25_Witness ==
    /\ Cardinality(tasks) = MaxTasks
    /\ \E t \in tasks : t.status = "completed"
    /\ last.op = "updateTask" /\ last.status = 200 /\ last.ran

\* Registrations that name a stored identity in another letter case or
\* between blanks
AnnUpper == [username |-> "Ann", email |-> "c@x.io", password |-> "secret9"]

Renamings == {AnnUpper, AnnAgain, AnnMail,
              [username |-> "cat", email |-> " a@x.io ", password |-> "secret9"]}

\* What POST /api/auth/register answers
RegisterResponse(e, us, body) ==
    IF RegisterLookup(e, us, body) # Continue THEN RegisterLookup(e, us, body).status
    ELSE RegisterSave(e, us, body).status

\* C26: a registration whose username or whose email is that of a stored
\* account up to letter case and surrounding blanks is refused as a
\* duplicate.
C26_IdentityIsNormalized ==
    \A i \in UserIds(users), body \in Renamings :
        (\/ ToLowerCase(Trim(body.username)) = ToLowerCase(Trim(users[i].username))
         \/ ToLowerCase(Trim(body.email)) = ToLowerCase(Trim(users[i].email)))
            => RegisterResponse(entry, users, body) = 400

\* C27: whenever a task creation reaches the notification, the transporter
\* is there or sendTaskCreationEmail returns without it: the call never
\* ends in a promise that rejects with nobody awaiting it.
C27_DispatcherNeverRejects ==
    \A p \in Procs : Creating(p) => procs[p].mail # "rejected unawaited"

-----------------------------------------------------------------------------
(* Status updates in flight together: a PATCH between its one await, the   *)
(* findOneAndUpdate the store applies to the document in one step.         *)

\* updateTask up to its await: the checks of the id and of the status
UpdateTaskCheck(e, taskId, body) ==
    IF ~ObjectIdIsValid(taskId) THEN
        [status |-> 400, message |-> "Invalid task ID format"]
    ELSE IF \/ e = "index" /\ (Missing(body, "status") \/ body.status \notin Statuses)
            \/ e = "app" /\ ~Missing(body, "status") /\ body.status \notin Statuses THEN
        [status |-> 400,
         message |-> "Invalid status. Must be one of: pending, in-progress, completed"]
    ELSE Continue

\* How many findOneAndUpdate calls of the requests in flight the store has
\* applied
Applied == Cardinality({p \in Procs : procs[p].pc \in {"applied", "answered"}})

UpdateTaskBegin(p, h, taskId, body) ==
    /\ procs[p].pc = "idle"
    /\ LET g == Gate(entry, "tasks", h, clock)
           c == UpdateTaskCheck(entry, taskId, body)
       IN  IF ~g.next THEN
               /\ last' = Rejected("updateTask", "tasks", h, g)
               /\ UNCHANGED procs
           ELSE IF c # Continue THEN
               /\ last' = Answered("updateTask", "tasks", h, g.user.userId, taskId,
                                   [c EXCEPT !.status = c.status], "", <<>>)
               /\ UNCHANGED procs
           ELSE
               /\ procs' = [procs EXCEPT ![p] =
                               [pc |-> "awaiting", userId |-> g.user.userId,
                                taskId |-> taskId, body |-> body,
                                owned |-> FindOwnedTask(tasks, taskId, g.user.userId) # {},
                                result |-> Continue, seq |-> 0]]
               /\ UNCHANGED last
    /\ UNCHANGED <<entry, allTasks, users, tasks, creator, issued, discarded, clock>>

\* The store runs the request's findOneAndUpdate
UpdateTaskApply(p) ==
    /\ procs[p].pc = "awaiting"
    /\ LET r == updateTask(entry, tasks, procs[p].userId, procs[p].taskId,
                           procs[p].body, clock)
       IN  /\ tasks' = r.tasks
           /\ procs' = [procs EXCEPT ![p].pc = "applied",
                                     ![p].result = [status |-> r.status,
                                                    message |-> r.message],
                                     ![p].seq = Applied + 1]
    /\ UNCHANGED <<entry, allTasks, users, creator, issued, discarded, clock, last>>

\* The handler resumes after its await and answers
UpdateTaskRespond(p) ==
    /\ procs[p].pc = "applied"
    /\ procs' = [procs EXCEPT ![p].pc = "answered"]
    /\ last' = [Answered("updateTask", "tasks", NoHeader, procs[p].userId,
                         procs[p].taskId, procs[p].result, "", <<>>)
                  EXCEPT !.token = "genuine"]
    /\ UNCHANGED <<entry, allTasks, users, tasks, creator, issued, discarded, clock>>

StatusBodies == {[status |-> v] : v \in {"completed", "in-progress", "pending", "bogus"}}

NextRace ==
    \/ Register(Ann)
    \/ Login(Credentials(Ann))
    \/ \E h \in IssuedHeaders : CreateTask(h, BuyMilk)
    \/ \E h \in IssuedHeaders : GetTasks(h)
    \/ \E p \in Procs, h \in IssuedHeaders, id \in TaskIds, b \in StatusBodies :
          UpdateTaskBegin(p, h, id, b)
    \/ \E p \in Procs : UpdateTaskApply(p)
    \/ \E p \in Procs : UpdateTaskRespond(p)

SpecRace == Init /\ [][NextRace]_vars

\* Two requests of one owner for one task the owner had when each arrived,
\* both through the store
RacedUpdates(p, q) ==
    /\ p # q
    /\ procs[p].pc \in {"applied", "answered"} /\ procs[q].pc \in {"applied", "answered"}
    /\ procs[p].taskId = procs[q].taskId /\ procs[p].userId = procs[q].userId
    /\ procs[p].owned /\ procs[q].owned

\* The requests for a task that the store has applied, and those of them
\* that wrote to it
Through(id) ==
    {p \in Procs : procs[p].pc \in {"applied", "answered"} /\ procs[p].taskId = id}

Writers(id) == {p \in Through(id) : procs[p].result.status = 200}

\* C28: status updates of one task by its owner that are in flight
\* together are all answered 200 with the ordinary message, and the task
\* has the status of the one the store applied last, so with two of them
\* one of the two statuses asked for.
C28_LastWriteWins ==
    \A t \in tasks :
        /\ \A p \in Through(t._id) : procs[p].owned => p \in Writers(t._id)
        /\ \A p, q \in Writers(t._id) : procs[p].result.message = procs[q].result.message
        /\ Writers(t._id) # {} =>
              \E p \in Writers(t._id) :
                  /\ \A q \in Writers(t._id) : procs[q].seq <= procs[p].seq
                  /\ t.status = procs[p].body.status

\* both requests were waiting on the store at once, asked for different
\* statuses, and both have been answered
C28_Witness ==
    \E p, q \in Procs :
        /\ RacedUpdates(p, q)
        /\ procs[p].pc = "answered" /\ procs[q].pc = "answered"
        /\ procs[p].body.status # procs[q].body.status
        /\ procs[p].seq = 2 /\ procs[q].seq = 1
        /\ \E t \in tasks : t._id = procs[p].taskId /\ t.status = procs[p].body.status

\* What a login with an account's stored email and a password is answered
LoginStatus(us, i, password) ==
    login(us, [email |-> us[i].email, password |-> password], 0).status

\* C29: after a password update answered 200, a login with the account's
\* email succeeds with the new password and is answered 401 with the old
\* one, and what a login is answered changes only by such an update.
C29_State ==
    \A u \in UserIds(users), body \in AnyPasswordBody :
        LET r == updatePassword(users, u, body) IN
        r.status = 200 =>
            /\ LoginStatus(r.users, u, body.newPassword) = 200
            /\ LoginStatus(r.users, u, body.currentPassword) = 401
            /\ \A v \in UserIds(users) \ {u}, pw \in LoginPasswords :
                  LoginStatus(r.users, v, pw) = LoginStatus(users, v, pw)

C29_Step ==
    \A i \in UserIds(users), pw \in LoginPasswords \ {""} :
        \/ LoginStatus(users', i, pw) = LoginStatus(users, i, pw)
        \/ /\ last'.op = "updatePassword" /\ last'.status = 200 /\ last'.userId = i
           /\ LoginStatus(users, i, NewPassword.currentPassword) = 200
           /\ LoginStatus(users', i, NewPassword.currentPassword) = 401
           /\ LoginStatus(users', i, NewPassword.newPassword) = 200

C29_NewPasswordReplacesOld == [](C29_State) /\ [][C29_Step]_vars

\* the password has just been updated, and later requests have not changed
\* which password logs in
C29_Witness ==
    /\ last.op = "login" /\ last.status = 401 /\ last.cause = "password"
    /\ Len(users) = MaxUsers
    /\ LoginStatus(users, 1, NewPassword.newPassword) = 200
    /\ LoginStatus(users, 1, NewPassword.currentPassword) = 401

-----------------------------------------------------------------------------
(* The Tasks page (frontend/src/pages/Tasks.tsx): the list it fetched, and *)
(* handleStatusChange between its optimistic update and the response.      *)

\* transformedTasks: the fields of a fetched task the page shows
Transform(t) == [id |-> t._id, status |-> t.status]

\* prevTasks.map(task => task.id === id ? replacement : task)
MapTask(prevTasks, id, replacement) ==
    [i \in DOMAIN prevTasks |->
        IF prevTasks[i].id = id THEN replacement ELSE prevTasks[i]]

\* What handleStatusChange does with the response: the task the server
\* sent back on success, originalTask in the catch block
Settle(prevTasks, id, ok, confirmed, originalTask) ==
    IF ok THEN MapTask(prevTasks, id, confirmed)
    ELSE MapTask(prevTasks, id, originalTask)

\* fetchTasks on mount: GET /api/tasks, then setAllTasks
Mount(h) ==
    /\ allTasks = <<>>
    /\ \A p \in Procs : procs[p].pc = "idle"
    /\ Gate(entry, "tasks", h, clock).next
    /\ \E q \in getTasks(tasks, Gate(entry, "tasks", h, clock).user.userId) :
          /\ q # <<>>
          /\ allTasks' = [i \in DOMAIN q |-> Transform(q[i])]
    /\ UNCHANGED <<entry, users, tasks, creator, issued, discarded, clock, procs, last>>

\* handleStatusChange up to its fetch: originalTask, the optimistic update,
\* and the PATCH on its way
StatusChangeBegin(p, h, i, newStatus) ==
    /\ procs[p].pc = "idle"
    /\ Gate(entry, "tasks", h, clock).next
    /\ i \in DOMAIN allTasks
    /\ procs' = [procs EXCEPT ![p] =
                    [pc |-> "sent", header |-> h, id |-> allTasks[i].id,
                     newStatus |-> newStatus, originalTask |-> allTasks[i],
                     ok |-> FALSE, task |-> allTasks[i], seq |-> 0]]
    /\ allTasks' = MapTask(allTasks, allTasks[i].id,
                           [allTasks[i] EXCEPT !.status = newStatus])
    /\ UNCHANGED <<entry, users, tasks, creator, issued, discarded, clock, last>>

\* The server handles the PATCH; a storage failure makes it answer 500
StatusChangeServed(p, storageFails) ==
    /\ procs[p].pc = "sent"
    /\ LET g == Gate(entry, "tasks", procs[p].header, clock)
           r == updateTask(entry, tasks, g.user.userId, procs[p].id,
                           [status |-> procs[p].newStatus], clock)
           served == Cardinality({q \in Procs : procs[q].pc \in {"served", "settled"}})
       IN  IF storageFails \/ r.status # 200 THEN
               /\ procs' = [procs EXCEPT ![p].pc = "served", ![p].seq = served + 1]
               /\ UNCHANGED tasks
           ELSE
               /\ tasks' = r.tasks
               /\ procs' = [procs EXCEPT
                               ![p].pc = "served", ![p].ok = TRUE, ![p].seq = served + 1,
                               ![p].task = Transform(CHOOSE t \in r.tasks :
                                                        t._id = procs[p].id)]
    /\ UNCHANGED <<entry, users, creator, issued, discarded, clock, last, allTasks>>

\* The response reaches the page: the rest of handleStatusChange
StatusChangeSettled(p) ==
    /\ procs[p].pc = "served"
    /\ allTasks' = Settle(allTasks, procs[p].id, procs[p].ok, procs[p].task,
                          procs[p].originalTask)
    /\ procs' = [procs EXCEPT ![p].pc = "settled"]
    /\ UNCHANGED <<entry, users, tasks, creator, issued, discarded, clock, last>>

NextPage ==
    \/ Register(Ann)
    \/ Login(Credentials(Ann))
    \/ \E h \in IssuedHeaders : CreateTask(h, BuyMilk)
    \/ \E h \in IssuedHeaders : Mount(h)
    \/ \E p \in Procs, h \in IssuedHeaders, i \in 1..MaxTasks, s \in Statuses :
          StatusChangeBegin(p, h, i, s)
    \/ \E p \in Procs, f \in BOOLEAN : StatusChangeServed(p, f)
    \/ \E p \in Procs : StatusChangeSettled(p)

SpecPage == Init /\ [][NextPage]_vars

\* No status change of the task is between its optimistic update and its
\* response
Quiet(id) ==
    \A p \in Procs : procs[p].pc \in {"sent", "served"} => procs[p].id # id

\* C30: once no status change of a task is in flight, the page shows the
\* status the server has stored for it.
C30_PageShowsStoredStatus ==
    \A i \in DOMAIN allTasks :
        Quiet(allTasks[i].id) =>
            \A t \in tasks : t._id = allTasks[i].id => t.status = allTasks[i].status

====
